---- MODULE Spec2Model ----
(***************************************************************************)
(* A model of turbo_mysql_core: the FFI boundary (ffi.rs), its helpers     *)
(* (utils.rs), the handle types (types.rs) and the background runtime      *)
(* (lib.rs).  A boundary operation validates its arguments on the caller's *)
(* thread, then spawns a task on the runtime; the task awaits the pool,    *)
(* the connection lock and the backend, and reports through the callback.  *)
(***************************************************************************)
EXTENDS Integers, Sequences, FiniteSets, TLC

\* ------------------------------------------------------------------ bounds

\* Number of boundary calls the caller makes, with arguments of every kind.
MaxCalls == 2
\* Number of tasks that run at once on the runtime.
MaxTasks == 2
\* Largest affected-row count the backend reports for one statement.
MaxAffected == 1
\* Largest last-insert-id the backend reports for one statement.
MaxId == 2
\* Largest count a parameter buffer declares (but for one very large one).
MaxCount == 2
\* Number of encoded values, whole or cut short, in a parameter buffer.
MaxItems == 2

\* ------------------------------------------------------- program constants

STATUS_ERROR == 0
STATUS_OK == 1
\* The placeholder budget of one batch statement.
ChunkParams == 60000
\* A null pointer argument.
NullPtr == 0

None == "None"

MaxReq == IF MaxCalls > MaxTasks THEN MaxCalls ELSE MaxTasks
ReqIds == 1 .. MaxReq
\* The connection handle and the statement handle the caller already holds
\* when the model starts (delivered by an earlier begin_transaction and
\* prepare); handles created during the run are named by the creating request.
ConnH0 == MaxReq + 1
StmtH0 == MaxReq + 2
HandleIds == 1 .. (MaxReq + 2)
\* The one pool handle (a non-null *mut MysqlPool).
PoolH == MaxReq + 3

\* --------------------------------------------------------------- strings

\* A C string argument: a null pointer, bytes that are not UTF-8, or text.
\* Text is kept run-length encoded: a sequence of runs <<character, count>>.
NullStr == [kind |-> "null", text |-> <<>>]
BadUtf8 == [kind |-> "bad", text |-> <<>>]
Str(runs) == [kind |-> "utf8", text |-> runs]

Ok(v) == [ok |-> TRUE, val |-> v, err |-> ""]
Err(m) == [ok |-> FALSE, val |-> None, err |-> m]

\* A conversion that does not check the bytes (from_utf8_unchecked).
ptr_to_string_Lossy(p) ==
    IF p.kind = "null" THEN Err("Null pointer") ELSE Ok(p.text)

ptr_to_string(p) ==
    IF p.kind = "null" THEN Err("Null pointer")
    ELSE IF p.kind = "bad" THEN Err("Invalid UTF-8")
    ELSE Ok(p.text)

RECURSIVE CountChar(_, _)
CountChar(runs, ch) ==
    IF runs = <<>> THEN 0
    ELSE (IF Head(runs)[1] = ch THEN Head(runs)[2] ELSE 0) + CountChar(Tail(runs), ch)

\* columns_str.split(',').collect().len(): one piece more than there are commas
\* (the empty string splits into one empty piece).
SplitLen(runs) == CountChar(runs, ",") + 1

\* columns_str.split(','): the pieces between the commas, in order.  A piece
\* is kept with the number of times it repeats in a row, so that a run of n
\* commas gives the piece before it and n - 1 empty pieces.
RECURSIVE split(_, _, _)
split(runs, piece, done) ==
    IF runs = <<>> THEN Append(done, <<piece, 1>>)
    ELSE IF Head(runs)[1] = ","
    THEN split(Tail(runs), <<>>,
               Append(done, <<piece, 1>>)
               \o (IF Head(runs)[2] > 1 THEN << <<(<<>>), Head(runs)[2] - 1>> >> ELSE <<>>))
    ELSE split(Tail(runs), Append(piece, Head(runs)), done)

column_names(columns_str) == split(columns_str, <<>>, <<>>)

\* ----------------------------------------------------------- byte buffers

\* ptr_to_vec: a null pointer or a non-positive length gives the empty vector.
ptr_to_vec(buf) == IF buf.null \/ Len(buf.bytes) <= 0 THEN <<>> ELSE buf.bytes

Buf(bytes) == [null |-> FALSE, bytes |-> bytes]
NullBuf == [null |-> TRUE, bytes |-> <<>>]

\* v.to_le_bytes(): the n low bytes of v, the lowest first (two's complement
\* for a negative v: the division rounds down).
RECURSIVE to_le_bytes(_, _)
to_le_bytes(v, n) ==
    IF n = 0 THEN <<>> ELSE <<v % 256>> \o to_le_bytes(v \div 256, n - 1)

\* BinaryWrite for Vec<u8>
write_u8(buf, v) == Append(buf, v)
write_u16(buf, v) == buf \o to_le_bytes(v, 2)
write_u32(buf, v) == buf \o to_le_bytes(v, 4)
write_u64(buf, v) == buf \o to_le_bytes(v, 8)
write_i64(buf, v) == buf \o to_le_bytes(v, 8)
\* A float is kept as the eight bytes of its bit pattern.
write_f64(buf, bits) == buf \o bits
write_blob(buf, v) == write_u32(buf, Len(v)) \o v

\* The caller's encoder of one Value: the tag byte, then the payload.
encode_value(buf, value) ==
    IF value.tag = "Null" THEN write_u8(buf, 0)
    ELSE IF value.tag = "Integer" THEN write_i64(write_u8(buf, 1), value.n)
    ELSE IF value.tag = "Float" THEN write_f64(write_u8(buf, 2), value.v)
    ELSE IF value.tag = "String" THEN write_blob(write_u8(buf, 3), value.v)
    ELSE write_blob(write_u8(buf, 4), value.v)

RECURSIVE encode_values(_, _)
encode_values(buf, values) ==
    IF values = <<>> THEN buf
    ELSE encode_values(encode_value(buf, Head(values)), Tail(values))

\* The caller's encoder of a Parameter List: u32 count, then the Values.
encode_params(values) == encode_values(write_u32(<<>>, Len(values)), values)

\* BinaryReader::read_u32: four little-endian bytes at pos, or nothing.
read_u32(data, pos) ==
    IF pos + 4 <= Len(data)
    THEN [some |-> TRUE, pos |-> pos + 4,
          val |-> data[pos + 1] + 256 * data[pos + 2]
                  + 65536 * data[pos + 3] + 16777216 * data[pos + 4]]
    ELSE [some |-> FALSE, pos |-> pos, val |-> 0]

\* BinaryReader::read_u8
read_u8(data, pos) ==
    IF pos < Len(data)
    THEN [some |-> TRUE, pos |-> pos + 1, val |-> data[pos + 1]]
    ELSE [some |-> FALSE, pos |-> pos, val |-> 0]

\* BinaryReader::read_i64 / read_f64: the eight bytes, kept as bytes.
read_8(data, pos) ==
    IF pos + 8 <= Len(data)
    THEN [some |-> TRUE, pos |-> pos + 8, val |-> SubSeq(data, pos + 1, pos + 8)]
    ELSE [some |-> FALSE, pos |-> pos, val |-> <<>>]

\* BinaryReader::read_blob: a u32 length, then that many bytes.  A length
\* that runs past the end leaves the reader after the length field.
read_blob(data, pos) ==
    LET n == read_u32(data, pos) IN
    IF ~n.some THEN [some |-> FALSE, pos |-> pos, val |-> <<>>]
    ELSE IF n.pos + n.val <= Len(data)
    THEN [some |-> TRUE, pos |-> n.pos + n.val,
          val |-> SubSeq(data, n.pos + 1, n.pos + n.val)]
    ELSE [some |-> FALSE, pos |-> n.pos, val |-> <<>>]

NULL == [tag |-> "NULL", v |-> <<>>]

\* Tag 4 left out of the match: a blob reads as an unknown tag.
parse_value_StringOnly(data, pos) ==
    LET t == read_u8(data, pos) IN
    IF ~t.some THEN [pos |-> t.pos, val |-> NULL]
    ELSE IF t.val = 0 THEN [pos |-> t.pos, val |-> NULL]
    ELSE IF t.val = 1 THEN
        LET x == read_8(data, t.pos) IN
        [pos |-> x.pos, val |-> IF x.some THEN [tag |-> "Int", v |-> x.val] ELSE NULL]
    ELSE IF t.val = 2 THEN
        LET x == read_8(data, t.pos) IN
        [pos |-> x.pos, val |-> IF x.some THEN [tag |-> "Double", v |-> x.val] ELSE NULL]
    ELSE IF t.val = 3 THEN
        LET x == read_blob(data, t.pos) IN
        [pos |-> x.pos, val |-> IF x.some THEN [tag |-> "Bytes", v |-> x.val] ELSE NULL]
    ELSE [pos |-> t.pos, val |-> NULL]

\* A blob that is cut short read as the empty blob (unwrap_or_default).
parse_value_ShortBlobEmpty(data, pos) ==
    LET t == read_u8(data, pos) IN
    IF ~t.some THEN [pos |-> t.pos, val |-> NULL]
    ELSE IF t.val = 0 THEN [pos |-> t.pos, val |-> NULL]
    ELSE IF t.val = 1 THEN
        LET x == read_8(data, t.pos) IN
        [pos |-> x.pos, val |-> IF x.some THEN [tag |-> "Int", v |-> x.val] ELSE NULL]
    ELSE IF t.val = 2 THEN
        LET x == read_8(data, t.pos) IN
        [pos |-> x.pos, val |-> IF x.some THEN [tag |-> "Double", v |-> x.val] ELSE NULL]
    ELSE IF t.val \in {3, 4} THEN
        LET x == read_blob(data, t.pos) IN
        [pos |-> x.pos, val |-> [tag |-> "Bytes", v |-> x.val]]
    ELSE [pos |-> t.pos, val |-> NULL]

\* parse_value: one tagged value; an unknown tag or a short read is NULL.
parse_value(data, pos) ==
    LET t == read_u8(data, pos) IN
    IF ~t.some THEN [pos |-> t.pos, val |-> NULL]
    ELSE IF t.val = 0 THEN [pos |-> t.pos, val |-> NULL]
    ELSE IF t.val = 1 THEN
        LET x == read_8(data, t.pos) IN
        [pos |-> x.pos, val |-> IF x.some THEN [tag |-> "Int", v |-> x.val] ELSE NULL]
    ELSE IF t.val = 2 THEN
        LET x == read_8(data, t.pos) IN
        [pos |-> x.pos, val |-> IF x.some THEN [tag |-> "Double", v |-> x.val] ELSE NULL]
    ELSE IF t.val \in {3, 4} THEN
        LET x == read_blob(data, t.pos) IN
        [pos |-> x.pos, val |-> IF x.some THEN [tag |-> "Bytes", v |-> x.val] ELSE NULL]
    ELSE [pos |-> t.pos, val |-> NULL]

\* `count` calls of parse_value from pos.  Once the reader is at the end of
\* the buffer every further value is NULL and the reader does not move, so
\* the result is kept as the values read from the bytes (head) and the number
\* of NULLs that follow them (nulls).
RECURSIVE parse_values(_, _, _)
parse_values(data, pos, count) ==
    IF count = 0 THEN [head |-> <<>>, nulls |-> 0]
    ELSE IF pos >= Len(data) THEN [head |-> <<>>, nulls |-> count]
    ELSE LET x == parse_value(data, pos)
             rest == parse_values(data, x.pos, count - 1)
         IN [head |-> <<x.val>> \o rest.head, nulls |-> rest.nulls]

ValuesLen(vs) == Len(vs.head) + vs.nulls

\* unwrap_or(1): a count that cannot be read stands for one value.
parse_params_list_CountOne(bytes) ==
    IF Len(bytes) <= 0 THEN [head |-> <<>>, nulls |-> 0]
    ELSE LET c == read_u32(bytes, 0) IN
         parse_values(bytes, c.pos, IF c.some THEN c.val ELSE 1)

\* parse_params_list: empty for a null or empty buffer; the count field
\* defaults to 0 when it cannot be read.
parse_params_list(bytes) ==
    IF Len(bytes) <= 0 THEN [head |-> <<>>, nulls |-> 0]
    ELSE LET c == read_u32(bytes, 0) IN
         parse_values(bytes, c.pos, IF c.some THEN c.val ELSE 0)

\* parse_params!: Params::Empty for no values, else Params::Positional.
parse_params(bytes) ==
    LET vs == parse_params_list(bytes) IN
    IF ValuesLen(vs) = 0 THEN [kind |-> "Empty", values |-> vs]
    ELSE [kind |-> "Positional", values |-> vs]

Min(a, b) == IF a < b THEN a ELSE b

\* Every chunk cut from the start of the list.
Slice_FromStart(vs, from, len) ==
    LET hd == SubSeq(vs.head, 1, Min(len, Len(vs.head)))
    IN [head |-> hd, nulls |-> len - Len(hd)]

\* all_values[from .. from+len-1] of a value list kept as head and nulls.
Slice(vs, from, len) ==
    LET hd == IF from < Len(vs.head)
              THEN SubSeq(vs.head, from + 1, Min(from + len, Len(vs.head)))
              ELSE <<>>
    IN [head |-> hd, nulls |-> len - Len(hd)]

\* ------------------------------------------------------------- envelopes

\* What a callback is handed: the header fields that were written, the text
\* of an error, and buf, the bytes of the buffer.
Payload(status, a, i, cols, rows, msg) ==
    [status |-> status, affected_rows |-> a, last_insert_id |-> i,
     column_count |-> cols, row_count |-> rows, msg |-> msg, buf |-> <<>>]

\* A loop that writes the same piece n times.
RECURSIVE write_n(_, _, _)
write_n(buf, piece, n) == IF n = 0 THEN buf ELSE write_n(buf \o piece, piece, n - 1)

\* The start of every result buffer: status, affected_rows, last_insert_id.
result_header(affected_rows, last_insert_id) ==
    write_u64(write_u64(write_u8(<<>>, STATUS_OK), affected_rows), last_insert_id)

\* A result without rows written as the three leading fields alone.
serialize_result_NoCounts(rows, affected_rows, last_insert_id) ==
    IF rows = <<>>
    THEN [Payload(STATUS_OK, affected_rows, last_insert_id, 0, 0, "") EXCEPT
            !.buf = result_header(affected_rows, last_insert_id)]
    ELSE LET cols_len == rows[1].ncols
             cols == write_n(write_u32(result_header(affected_rows, last_insert_id), cols_len),
                             write_u16(write_u16(write_blob(<<>>, <<>>), 0), 0), cols_len)
         IN  [Payload(STATUS_OK, affected_rows, last_insert_id, cols_len, Len(rows), "") EXCEPT
                !.buf = write_n(write_u32(cols, Len(rows)),
                                write_n(<<>>, write_u8(<<>>, 0), cols_len), Len(rows))]

\* serialize_result: the header; the column descriptors are those of the
\* first row, so a result without rows carries no columns. A row of the model
\* has ncols cells that are all NULL, under columns with an empty name, type
\* code 0 and character set 0.
serialize_result(rows, affected_rows, last_insert_id) ==
    IF rows = <<>>
    THEN [Payload(STATUS_OK, affected_rows, last_insert_id, 0, 0, "") EXCEPT
            !.buf = write_u32(write_u32(result_header(affected_rows, last_insert_id), 0), 0)]
    ELSE LET cols_len == rows[1].ncols
             cols == write_n(write_u32(result_header(affected_rows, last_insert_id), cols_len),
                             write_u16(write_u16(write_blob(<<>>, <<>>), 0), 0), cols_len)
         IN  [Payload(STATUS_OK, affected_rows, last_insert_id, cols_len, Len(rows), "") EXCEPT
                !.buf = write_n(write_u32(cols, Len(rows)),
                                write_n(<<>>, write_u8(<<>>, 0), cols_len), Len(rows))]

\* encode_error: status byte and the message (the blob of the message is
\* kept as its text, msg).
encode_error(msg) ==
    [Payload(STATUS_ERROR, 0, 0, 0, 0, msg) EXCEPT !.buf = write_u8(<<>>, STATUS_ERROR)]

\* The envelope that delivers a new handle: status, the pointer, three zeros.
handle_response(ptr) ==
    [Payload(STATUS_OK, ptr, 0, 0, 0, "") EXCEPT
        !.buf = write_u32(write_u32(write_u64(write_u64(write_u8(<<>>, 1), ptr), 0), 0), 0)]

\* ------------------------------------------------------------------ state

VARIABLES
    req,        \* per request id: the call, its task and the task's locals
    callbacks,  \* per request id handed to the callback: the invocations seen
    handles     \* per handle: the box and its Arc<Mutex<Option<Conn>>>

vars == <<req, callbacks, handles>>

PoolOps == {"pool_query_raw", "pool_query", "pool_prepare", "pool_begin_transaction",
            "pool_batch_insert", "pool_batch_upsert"}
ConnOps == {"conn_query_raw", "conn_query", "conn_commit", "conn_rollback",
            "conn_batch_insert", "conn_batch_upsert", "stmt_execute"}
BatchOps == {"pool_batch_insert", "pool_batch_upsert",
             "conn_batch_insert", "conn_batch_upsert"}

NoBatch == [table |-> <<>>, columns |-> <<>>, data |-> <<>>, on_duplicate |-> FALSE,
            num_rows |-> 0, num_cols |-> 0, all_values |-> [head |-> <<>>, nulls |-> 0],
            off |-> 0, total_affected |-> 0, last_id |-> 0]
NoParams == [kind |-> None, values |-> [head |-> <<>>, nulls |-> 0]]
\* String::new() as the update clause.
NoUpdate == [keyword |-> FALSE, updates |-> <<>>]
NoChunk == [table |-> <<>>, columns |-> <<>>, groups |-> 0, width |-> 0, update |-> NoUpdate]
\* A statement handed to the connection: the call, its text (for a batch
\* chunk, the parts the text is built from) and its parameters.
Stmt(api, sql, params) == [api |-> api, sql |-> sql, params |-> params, chunk |-> NoChunk]
NoStmt == Stmt(None, <<>>, NoParams)
NoArgs == [h |-> NullPtr, strs |-> <<>>]

IdleReq == [pc |-> "idle", op |-> None, args |-> NoArgs, h |-> NullPtr, conn |-> FALSE,
            sql |-> <<>>, params |-> <<>>, b |-> NoBatch, cur |-> NoStmt,
            trace |-> <<>>]

NoHandle == [kind |-> None, boxed |-> FALSE, strong |-> 0, slot |-> 0,
             held |-> FALSE, waiters |-> <<>>]
\* Box::new(MysqlConnection / MysqlPreparedStatement { conn: Arc::new(Mutex::new(Some(conn))) })
NewHandle(kind, c) == [kind |-> kind, boxed |-> TRUE, strong |-> 1, slot |-> c,
                       held |-> FALSE, waiters |-> <<>>]

\* No invocation of the callback yet.
NoCallback == [count |-> 0, payload |-> Payload(0 - 1, 0, 0, 0, 0, ""), thread |-> None]

Init ==
    /\ req = [r \in ReqIds |-> IdleReq]
    /\ callbacks = [r \in ReqIds |-> NoCallback]
    /\ handles = [h \in HandleIds |->
                    IF h = ConnH0 THEN NewHandle("conn", ConnH0)
                    ELSE IF h = StmtH0 THEN NewHandle("stmt", StmtH0)
                    ELSE NoHandle]

\* ------------------------------------------------------ the callback bridge

\* send_response: hand the buffer to the callback, on the current thread.
send_response(cbs, req_id, data, thread) ==
    [cbs EXCEPT ![req_id] = [count |-> @.count + 1, payload |-> data, thread |-> thread]]

send_error(cbs, req_id, msg, thread) ==
    send_response(cbs, req_id, encode_error(msg), thread)

\* The handles of one kind the caller may still pass: created and not destroyed.
Live(kind) == {h \in HandleIds : handles[h].kind = kind /\ handles[h].boxed}

\* ------------------------------------------------- the synchronous part

\* An early return of the boundary function after send_error: the callback has
\* run on the caller's thread and nothing was spawned.
Reject(r, op, args, msg) ==
    /\ req' = [req EXCEPT ![r] = [IdleReq EXCEPT !.pc = "rejected", !.op = op,
                                                 !.args = args]]
    /\ callbacks' = send_error(callbacks, r, msg, "caller")
    /\ UNCHANGED handles

\* get_runtime().spawn(async move { .. }): the task owns its captured values;
\* a captured conn_arc is one more strong reference to the handle's Arc.
Spawn(r, task) ==
    /\ req' = [req EXCEPT ![r] = [task EXCEPT !.pc = "spawned"]]
    /\ handles' = IF task.h = NullPtr THEN handles
                  ELSE [handles EXCEPT ![task.h].strong = @ + 1]
    /\ UNCHANGED callbacks

Call(op, args) == [IdleReq EXCEPT !.op = op, !.args = args]

mysql_pool_query_raw(r, E) ==
    /\ req[r].pc = "idle"
    /\ \E pool_ptr \in E.pools, query \in E.sqls :
        LET op == "pool_query_raw"
            args == [h |-> pool_ptr, strs |-> <<query.kind>>]
            query_str == ptr_to_string(query)
        IN  IF pool_ptr = NullPtr THEN Reject(r, op, args, "Invalid pointers")
            ELSE IF ~query_str.ok THEN Reject(r, op, args, query_str.err)
            ELSE Spawn(r, [Call(op, args) EXCEPT !.sql = query_str.val])

mysql_pool_query(r, E) ==
    /\ req[r].pc = "idle"
    /\ \E pool_ptr \in E.pools, query \in E.sqls, params \in E.params :
        LET op == "pool_query"
            args == [h |-> pool_ptr, strs |-> <<query.kind>>]
            query_str == ptr_to_string(query)
        IN  IF pool_ptr = NullPtr THEN Reject(r, op, args, "Invalid pointers")
            ELSE IF ~query_str.ok THEN Reject(r, op, args, query_str.err)
            ELSE Spawn(r, [Call(op, args) EXCEPT !.sql = query_str.val,
                                                 !.params = ptr_to_vec(params)])

mysql_pool_prepare(r, E) ==
    /\ req[r].pc = "idle"
    /\ \E pool_ptr \in E.pools, query \in E.sqls :
        LET op == "pool_prepare"
            args == [h |-> pool_ptr, strs |-> <<query.kind>>]
            query_str == ptr_to_string(query)
        IN  IF pool_ptr = NullPtr THEN Reject(r, op, args, "Invalid pointers")
            ELSE IF ~query_str.ok THEN Reject(r, op, args, query_str.err)
            ELSE Spawn(r, [Call(op, args) EXCEPT !.sql = query_str.val])

mysql_pool_begin_transaction(r, E) ==
    /\ req[r].pc = "idle"
    /\ \E pool_ptr \in E.pools :
        LET op == "pool_begin_transaction"
            args == [h |-> pool_ptr, strs |-> <<>>]
        IN  IF pool_ptr = NullPtr THEN Reject(r, op, args, "Invalid pointers")
            ELSE Spawn(r, [Call(op, args) EXCEPT !.sql = <<<<"START TRANSACTION", 1>>>>])

mysql_conn_query_raw(r, E) ==
    /\ req[r].pc = "idle"
    /\ \E conn_ptr \in E.nulls \cup Live("conn"), query \in E.sqls :
        LET op == "conn_query_raw"
            args == [h |-> conn_ptr, strs |-> <<query.kind>>]
            query_str == ptr_to_string(query)
        IN  IF conn_ptr = NullPtr THEN Reject(r, op, args, "Invalid connection pointer")
            ELSE IF ~query_str.ok THEN Reject(r, op, args, query_str.err)
            ELSE Spawn(r, [Call(op, args) EXCEPT !.sql = query_str.val, !.h = conn_ptr])

mysql_conn_query(r, E) ==
    /\ req[r].pc = "idle"
    /\ \E conn_ptr \in E.nulls \cup Live("conn"), query \in E.sqls, params \in E.params :
        LET op == "conn_query"
            args == [h |-> conn_ptr, strs |-> <<query.kind>>]
            query_str == ptr_to_string(query)
        IN  IF conn_ptr = NullPtr THEN Reject(r, op, args, "Invalid connection pointer")
            ELSE IF ~query_str.ok THEN Reject(r, op, args, query_str.err)
            ELSE Spawn(r, [Call(op, args) EXCEPT !.sql = query_str.val, !.h = conn_ptr,
                                                 !.params = ptr_to_vec(params)])

mysql_conn_commit(r, E) ==
    /\ req[r].pc = "idle"
    /\ \E conn_ptr \in E.nulls \cup Live("conn") :
        LET op == "conn_commit"
            args == [h |-> conn_ptr, strs |-> <<>>]
        IN  IF conn_ptr = NullPtr THEN Reject(r, op, args, "Invalid connection pointer")
            ELSE Spawn(r, [Call(op, args) EXCEPT !.sql = <<<<"COMMIT", 1>>>>, !.h = conn_ptr])

mysql_conn_rollback(r, E) ==
    /\ req[r].pc = "idle"
    /\ \E conn_ptr \in E.nulls \cup Live("conn") :
        LET op == "conn_rollback"
            args == [h |-> conn_ptr, strs |-> <<>>]
        IN  IF conn_ptr = NullPtr THEN Reject(r, op, args, "Invalid connection pointer")
            ELSE Spawn(r, [Call(op, args) EXCEPT !.sql = <<<<"ROLLBACK", 1>>>>, !.h = conn_ptr])

\* The four batch entry points share their body up to the handle kind, the
\* message for a null handle and the on_duplicate flag.
BatchCall(r, E, op, ptrs, null_msg, on_duplicate) ==
    /\ req[r].pc = "idle"
    /\ \E ptr \in ptrs, batch \in E.batches :
        LET table == batch[1]
            columns == batch[2]
            data == batch[3]
            args == [h |-> ptr, strs |-> <<table.kind, columns.kind>>]
            table_str == ptr_to_string(table)
            columns_str == ptr_to_string(columns)
        IN  IF ptr = NullPtr THEN Reject(r, op, args, null_msg)
            ELSE IF ~table_str.ok THEN Reject(r, op, args, table_str.err)
            ELSE IF ~columns_str.ok THEN Reject(r, op, args, columns_str.err)
            ELSE Spawn(r, [Call(op, args) EXCEPT
                             !.h = IF op \in ConnOps THEN ptr ELSE NullPtr,
                             !.b = [NoBatch EXCEPT !.table = table_str.val,
                                                   !.columns = columns_str.val,
                                                   !.data = ptr_to_vec(data),
                                                   !.on_duplicate = on_duplicate]])

mysql_conn_batch_insert(r, E) ==
    BatchCall(r, E, "conn_batch_insert", E.nulls \cup Live("conn"),
              "Invalid connection pointer", FALSE)

mysql_conn_batch_upsert(r, E) ==
    BatchCall(r, E, "conn_batch_upsert", E.nulls \cup Live("conn"),
              "Invalid connection pointer", TRUE)

mysql_pool_batch_insert(r, E) ==
    BatchCall(r, E, "pool_batch_insert", E.pools, "Invalid pointers", FALSE)

mysql_pool_batch_upsert(r, E) ==
    BatchCall(r, E, "pool_batch_upsert", E.pools, "Invalid pointers", TRUE)

\* The statement run under the lock of whichever handle, not its own.
mysql_stmt_execute_AnyConn(r, E) ==
    /\ req[r].pc = "idle"
    /\ \E stmt_ptr \in E.nulls \cup Live("stmt"), params \in E.params,
          other \in Live("stmt") \cup Live("conn") :
        LET op == "stmt_execute"
            args == [h |-> stmt_ptr, strs |-> <<>>]
        IN  IF stmt_ptr = NullPtr THEN Reject(r, op, args, "Invalid statement pointer")
            ELSE Spawn(r, [Call(op, args) EXCEPT !.sql = <<<<"stmt", stmt_ptr>>>>,
                                                 !.h = other,
                                                 !.params = ptr_to_vec(params)])

mysql_stmt_execute(r, E) ==
    /\ req[r].pc = "idle"
    /\ \E stmt_ptr \in E.nulls \cup Live("stmt"), params \in E.params :
        LET op == "stmt_execute"
            args == [h |-> stmt_ptr, strs |-> <<>>]
        IN  IF stmt_ptr = NullPtr THEN Reject(r, op, args, "Invalid statement pointer")
            ELSE Spawn(r, [Call(op, args) EXCEPT !.sql = <<<<"stmt", stmt_ptr>>>>,
                                                 !.h = stmt_ptr,
                                                 !.params = ptr_to_vec(params)])

\* ------------------------------------------------------------ the tasks

\* The task of r goes on as rq; hs is the handle table it leaves.
Issue(r, rq, stmt, hs) ==
    /\ req' = [req EXCEPT ![r] = [rq EXCEPT !.pc = "exec", !.cur = stmt]]
    /\ handles' = hs
    /\ UNCHANGED callbacks

\* The response sent from the function that spawned the task.
Respond_Inline(r, rq, payload, hs) ==
    /\ req' = [req EXCEPT ![r] = [rq EXCEPT !.pc = "called", !.cur = NoStmt]]
    /\ callbacks' = send_response(callbacks, r, payload, "caller")
    /\ handles' = hs

\* send_response from the task, the last thing it does before it ends.
Respond(r, rq, payload, hs) ==
    /\ req' = [req EXCEPT ![r] = [rq EXCEPT !.pc = "called", !.cur = NoStmt]]
    /\ callbacks' = send_response(callbacks, r, payload, "runtime")
    /\ handles' = hs

\* A `?` in place of unwrap_or_return!: the task returns without a callback.
Fail_Silent(r, rq, msg, hs) ==
    /\ req' = [req EXCEPT ![r] = [rq EXCEPT !.pc = "called", !.cur = NoStmt]]
    /\ handles' = hs
    /\ UNCHANGED callbacks

\* An error path that takes the connection out of the slot (lock.take())
\* before it reports.
Fail_TakeConn(r, rq, msg, hs) ==
    /\ req' = [req EXCEPT ![r] = [rq EXCEPT !.pc = "called", !.cur = NoStmt]]
    /\ callbacks' = send_error(callbacks, r, msg, "runtime")
    /\ handles' = IF rq.op \in ConnOps THEN [hs EXCEPT ![rq.h].slot = 0] ELSE hs

\* unwrap_or_return!: send_error, then return from the task.
Fail(r, rq, msg, hs) ==
    /\ req' = [req EXCEPT ![r] = [rq EXCEPT !.pc = "called", !.cur = NoStmt]]
    /\ callbacks' = send_error(callbacks, r, msg, "runtime")
    /\ handles' = hs

Max(a, b) == IF a > b THEN a ELSE b

\* The quotient rounded up instead of down.
rows_per_chunk_RoundUp(num_cols) ==
    Max((ChunkParams + num_cols - 1) \div num_cols, 1)

\* (60000 / num_cols).max(1)
\* The constant taken as a number of rows, whatever the width of a row.
rows_per_chunk_NoFloor(num_cols) == ChunkParams

rows_per_chunk(num_cols) == Max(ChunkParams \div num_cols, 1)

\* The length of the chunk that all_values.chunks(..) yields at offset off.
ChunkLen(b) ==
    Min(rows_per_chunk(b.num_cols) * b.num_cols, ValuesLen(b.all_values) - b.off)

\* The clause with its last column left out.
update_clause_DropLast(columns_str, on_duplicate) ==
    LET names == column_names(columns_str) IN
    IF on_duplicate
    THEN [keyword |-> TRUE,
          updates |-> [i \in 1 .. (Len(names) - 1) |->
                        [col |-> names[i][1], values_of |-> names[i][1],
                         times |-> names[i][2]]]]
    ELSE NoUpdate

\* update_clause: in upsert mode " ON DUPLICATE KEY UPDATE " and, for every
\* column name c in order, "c = VALUES(c)" joined by ", "; else nothing.
update_clause(columns_str, on_duplicate) ==
    LET names == column_names(columns_str) IN
    IF on_duplicate
    THEN [keyword |-> TRUE,
          updates |-> [i \in 1 .. Len(names) |->
                        [col |-> names[i][1], values_of |-> names[i][1],
                         times |-> names[i][2]]]]
    ELSE NoUpdate

\* The statement of the chunk at b.off: current_chunk_size placeholder groups
\* of num_cols placeholders, the update clause in upsert mode, and the chunk's
\* values as positional parameters.
ChunkStmt(b) ==
    [api |-> "exec_drop",
     sql |-> <<<<"INSERT INTO", 1>>>>,
     chunk |-> [table |-> b.table, columns |-> b.columns,
                groups |-> ChunkLen(b) \div b.num_cols, width |-> b.num_cols,
                update |-> update_clause(b.columns, b.on_duplicate)],
     params |-> [kind |-> "Positional", values |-> Slice(b.all_values, b.off, ChunkLen(b))]]

\* execute_batch! with the empty batch reported as an error.
execute_batch_ZeroRowsError(r, rq, hs) ==
    LET n == read_u32(rq.b.data, 0)
        num_cols == SplitLen(rq.b.columns)
        b == [rq.b EXCEPT !.num_rows = n.val, !.num_cols = num_cols,
                          !.all_values = parse_values(rq.b.data, n.pos, n.val * num_cols),
                          !.off = 0, !.total_affected = 0, !.last_id = 0]
    IN  IF ~n.some THEN Fail(r, rq, "Failed to read row count", hs)
        ELSE IF n.val = 0 THEN Fail(r, rq, "No rows specified", hs)
        ELSE Issue(r, [rq EXCEPT !.b = b], ChunkStmt(b), hs)

\* execute_batch! up to its first statement.
execute_batch(r, rq, hs) ==
    LET n == read_u32(rq.b.data, 0)
        num_rows == n.val
        num_cols == SplitLen(rq.b.columns)
        total_values == num_rows * num_cols
        b == [rq.b EXCEPT !.num_rows = num_rows, !.num_cols = num_cols,
                          !.all_values = parse_values(rq.b.data, n.pos, total_values),
                          !.off = 0, !.total_affected = 0, !.last_id = 0]
    IN  IF ~n.some THEN Fail(r, rq, "Failed to read row count", hs)
        ELSE IF num_rows = 0 THEN Respond(r, rq, serialize_result(<<>>, 0, 0), hs)
        ELSE IF num_cols = 0 THEN Fail(r, rq, "No columns specified", hs)
        ELSE Issue(r, [rq EXCEPT !.b = b], ChunkStmt(b), hs)

\* The id of the latest chunk kept, whether or not it is zero.
batch_chunk_ok_LatestId(r, rq, res, hs) ==
    LET b == [rq.b EXCEPT !.total_affected = @ + res.affected,
                          !.last_id = res.id,
                          !.off = @ + ChunkLen(rq.b)]
    IN  IF b.off < ValuesLen(b.all_values)
        THEN Issue(r, [rq EXCEPT !.b = b], ChunkStmt(b), hs)
        ELSE Respond(r, [rq EXCEPT !.b = b],
                     serialize_result(<<>>, b.total_affected, b.last_id), hs)

\* A failed chunk skipped: the loop goes on with the chunk after it.
batch_chunk_err_Continue(r, rq, res, hs) ==
    LET b == [rq.b EXCEPT !.off = @ + ChunkLen(rq.b)]
    IN  IF b.off < ValuesLen(b.all_values)
        THEN Issue(r, [rq EXCEPT !.b = b], ChunkStmt(b), hs)
        ELSE Fail(r, [rq EXCEPT !.b = b], "Batch insert error: backend", hs)

\* A chunk's exec_drop returned Ok: add up, then the next chunk or the result.
batch_chunk_ok(r, rq, res, hs) ==
    LET b == [rq.b EXCEPT !.total_affected = @ + res.affected,
                          !.last_id = IF res.id > 0 THEN res.id ELSE @,
                          !.off = @ + ChunkLen(rq.b)]
    IN  IF b.off < ValuesLen(b.all_values)
        THEN Issue(r, [rq EXCEPT !.b = b], ChunkStmt(b), hs)
        ELSE Respond(r, [rq EXCEPT !.b = b],
                     serialize_result(<<>>, b.total_affected, b.last_id), hs)

\* A chunk's exec_drop returned Err: report it and return; the chunks after
\* it are not run and nothing is undone.
batch_chunk_err(r, rq, res, hs) ==
    Fail(r, rq, "Batch insert error: backend", hs)

\* The first statement of a task that is not a batch.
FirstStmt(rq) ==
    IF rq.op \in {"pool_query_raw", "conn_query_raw"}
        THEN Stmt("query", rq.sql, NoParams)
    ELSE IF rq.op \in {"pool_query", "conn_query", "stmt_execute"}
        THEN Stmt("exec", rq.sql, parse_params(rq.params))
    ELSE IF rq.op = "pool_prepare"
        THEN Stmt("prep", rq.sql, NoParams)
    ELSE Stmt("query_drop", rq.sql, NoParams)

\* The task has a connection to work on.
Begin(r, rq, hs) ==
    IF rq.op \in BatchOps THEN execute_batch(r, rq, hs)
    ELSE Issue(r, rq, FirstStmt(rq), hs)

\* The connection boxed as soon as it is acquired, before START TRANSACTION.
pool_get_conn_BoxFirst(r, E) ==
    /\ req[r].pc = "spawned"
    /\ req[r].op \in PoolOps
    /\ \E got \in E.conns :
        IF got THEN Begin(r, [req[r] EXCEPT !.conn = TRUE],
                          IF req[r].op = "pool_begin_transaction"
                          THEN [handles EXCEPT ![r] = NewHandle("conn", r)]
                          ELSE handles)
        ELSE Fail(r, req[r], "pool error", handles)

\* pool.get_conn().await of a pool-scoped task.
pool_get_conn(r, E) ==
    /\ req[r].pc = "spawned"
    /\ req[r].op \in PoolOps
    /\ \E got \in E.conns :
        IF got THEN Begin(r, [req[r] EXCEPT !.conn = TRUE], handles)
        ELSE Fail(r, req[r], "pool error", handles)

\* The guarded connection used without looking at the slot.
WithGuard_Unchecked(r, rq, hs) ==
    Begin(r, rq, hs)

\* The guard dropped once the slot has been looked at: the statement and the
\* callback come after the release.
WithGuard_Released(r, rq, hs) ==
    IF hs[rq.h].slot = 0 THEN Fail(r, rq, "Connection is closed", hs)
    ELSE Begin(r, rq, [hs EXCEPT ![rq.h].held = FALSE])

\* `if let Some(conn) = lock.as_mut()` under the guard.
WithGuard(r, rq, hs) ==
    IF hs[rq.h].slot = 0 THEN Fail(r, rq, "Connection is closed", hs)
    ELSE Begin(r, rq, hs)

\* The task goes on without the lock (try_lock with its result ignored).
conn_lock_NoWait(r) ==
    /\ req[r].pc = "spawned"
    /\ req[r].op \in ConnOps
    /\ WithGuard(r, req[r], [handles EXCEPT ![req[r].h].held = TRUE])

\* conn_arc.lock().await, first poll: take the free lock, or queue behind
\* the tasks already waiting (tokio's Mutex is first in, first out).
conn_lock(r) ==
    /\ req[r].pc = "spawned"
    /\ req[r].op \in ConnOps
    /\ LET h == req[r].h IN
        IF ~handles[h].held
        THEN WithGuard(r, req[r], [handles EXCEPT ![h].held = TRUE])
        ELSE /\ req' = [req EXCEPT ![r].pc = "waiting"]
             /\ handles' = [handles EXCEPT ![h].waiters = Append(@, r)]
             /\ UNCHANGED callbacks

\* The task was handed the lock by the one that released it.
conn_locked(r) ==
    /\ req[r].pc = "locked"
    /\ WithGuard(r, req[r], handles)

\* A commit or rollback that takes the connection out of the slot
\* (lock.take()) once the transaction is over.
stmt_return_TakeOnFinish(r, E) ==
    /\ req[r].pc = "exec"
    /\ \E res \in E.results :
        LET rq == [req[r] EXCEPT !.trace = Append(@, [stmt |-> req[r].cur, res |-> res])]
        IN  IF rq.op \in BatchOps THEN
                IF res.ok THEN batch_chunk_ok(r, rq, res, handles)
                ELSE batch_chunk_err(r, rq, res, handles)
            ELSE IF ~res.ok THEN Fail(r, rq, "backend", handles)
            ELSE IF rq.op \in {"conn_commit", "conn_rollback"} THEN
                Respond(r, rq, serialize_result(<<>>, 0, 0),
                        [handles EXCEPT ![rq.h].slot = 0])
            ELSE IF rq.op = "pool_prepare" THEN
                Respond(r, [rq EXCEPT !.conn = FALSE], handle_response(r),
                        [handles EXCEPT ![r] = NewHandle("stmt", r)])
            ELSE IF rq.op = "pool_begin_transaction" THEN
                Respond(r, [rq EXCEPT !.conn = FALSE], handle_response(r),
                        [handles EXCEPT ![r] = NewHandle("conn", r)])
            ELSE Respond(r, rq, serialize_result(res.rows, res.affected, res.id), handles)

\* A statement's await returns with what the backend reports.
stmt_return(r, E) ==
    /\ req[r].pc = "exec"
    /\ \E res \in E.results :
        LET rq == [req[r] EXCEPT !.trace = Append(@, [stmt |-> req[r].cur, res |-> res])]
        IN  IF rq.op \in BatchOps THEN
                IF res.ok THEN batch_chunk_ok(r, rq, res, handles)
                ELSE batch_chunk_err(r, rq, res, handles)
            ELSE IF ~res.ok THEN Fail(r, rq, "backend", handles)
            ELSE IF rq.op \in {"conn_commit", "conn_rollback"} THEN
                Respond(r, rq, serialize_result(<<>>, 0, 0), handles)
            ELSE IF rq.op = "pool_prepare" THEN
                Respond(r, [rq EXCEPT !.conn = FALSE], handle_response(r),
                        [handles EXCEPT ![r] = NewHandle("stmt", r)])
            ELSE IF rq.op = "pool_begin_transaction" THEN
                Respond(r, [rq EXCEPT !.conn = FALSE], handle_response(r),
                        [handles EXCEPT ![r] = NewHandle("conn", r)])
            ELSE Respond(r, rq, serialize_result(res.rows, res.affected, res.id), handles)

\* A release that wakes nobody.
Unlock_NoHandoff(hs, rs, h) ==
    [hs |-> [hs EXCEPT ![h].held = FALSE], rs |-> rs]

\* MutexGuard::drop: the lock goes to the first waiter, or becomes free.
Unlock(hs, rs, h) ==
    IF hs[h].waiters = <<>>
    THEN [hs |-> [hs EXCEPT ![h].held = FALSE], rs |-> rs]
    ELSE [hs |-> [hs EXCEPT ![h].waiters = Tail(@)],
          rs |-> [rs EXCEPT ![Head(hs[h].waiters)].pc = "locked"]]

\* Arc::drop: the last reference drops the Mutex and the connection in it.
ArcDrop(hs, h) ==
    IF hs[h].strong = 1
    THEN [hs EXCEPT ![h].strong = 0, ![h].slot = 0]
    ELSE [hs EXCEPT ![h].strong = @ - 1]

\* The end of the async block: its locals are dropped (the guard, the
\* pooled connection, the captured Arc).
task_end(r) ==
    /\ req[r].pc = "called"
    /\ LET rq == [IdleReq EXCEPT !.pc = "done"]
           rs == [req EXCEPT ![r] = rq]
       IN  IF req[r].op \in ConnOps
           THEN LET u == Unlock(handles, rs, req[r].h) IN
                /\ req' = u.rs
                /\ handles' = ArcDrop(u.hs, req[r].h)
           ELSE /\ req' = rs
                /\ UNCHANGED handles
    /\ UNCHANGED callbacks

\* A destroy that closes the connection at once (lock.take()), whoever
\* still refers to it.
mysql_conn_destroy_ForceClose(h) ==
    /\ h \in Live("conn")
    /\ handles' = [ArcDrop([handles EXCEPT ![h].boxed = FALSE], h) EXCEPT ![h].slot = 0]
    /\ UNCHANGED <<req, callbacks>>

\* mysql_conn_destroy / mysql_stmt_destroy: drop the box and its reference.
mysql_conn_destroy(h) ==
    /\ h \in Live("conn")
    /\ handles' = ArcDrop([handles EXCEPT ![h].boxed = FALSE], h)
    /\ UNCHANGED <<req, callbacks>>

mysql_stmt_destroy(h) ==
    /\ h \in Live("stmt")
    /\ handles' = ArcDrop([handles EXCEPT ![h].boxed = FALSE], h)
    /\ UNCHANGED <<req, callbacks>>

\* ------------------------------------------------------- the environment

\* What the caller passes and what the backend answers.
Text(ch) == Str(<<<<ch, 1>>>>)
ErrRes == [ok |-> FALSE, rows |-> <<>>, affected |-> 0, id |-> 0]
OkRes(rows, a, i) == [ok |-> TRUE, rows |-> rows, affected |-> a, id |-> i]

\* row_count fields of batch buffers, as four little-endian bytes
ShortData == Buf(<<1, 0>>)
Rows0 == Buf(<<0, 0, 0, 0>>)
Rows1 == Buf(<<1, 0, 0, 0, 0>>)

\* Two rows of two values: 1, NULL, "x", 2.5
Rows2 == Buf(<<2, 0, 0, 0,
               1, 1, 0, 0, 0, 0, 0, 0, 0,
               0,
               3, 1, 0, 0, 0, 120,
               2, 0, 0, 0, 0, 0, 0, 4, 64>>)
\* Three rows and 60001 rows, whose values are cut off: all read as NULL.
Rows3 == Buf(<<3, 0, 0, 0>>)
Rows60001 == Buf(<<97, 234, 0, 0>>)
\* Column lists: "", "a", "a,b", and lists of 30001 and 60001 names.
Cols0 == Str(<<>>)
Cols1 == Text("a")
Cols2 == Str(<<<<"a", 1>>, <<",", 1>>, <<"b", 1>>>>)
Cols30001 == Str(<<<<"a", 1>>, <<",", 30000>>>>)
Cols60001 == Str(<<<<"a", 1>>, <<",", 60000>>>>)

\* One pointer and one string of every kind, and the batch buffers whose
\* row count is unreadable, zero and one.
Workload ==
    [pools |-> {NullPtr, PoolH},
     nulls |-> {NullPtr},
     sqls |-> {NullStr, BadUtf8, Text("q")},
     params |-> {NullBuf, Buf(<<1, 0, 0, 0, 0>>)},
     batches |-> {NullStr, BadUtf8, Text("t")} \X {NullStr, BadUtf8, Text("a")}
                 \X {ShortData, Rows0, Rows1},
     conns |-> BOOLEAN,
     results |-> {ErrRes, OkRes(<<>>, 0, 0), OkRes(<<[ncols |-> 1]>>, 0, 0)}]

\* Calls whose arguments pass validation, so that every call spawns a task.
TaskWorkload ==
    [pools |-> {PoolH},
     nulls |-> {},
     sqls |-> {Text("q")},
     params |-> {Buf(<<1, 0, 0, 0, 0>>)},
     batches |-> {<<Text("t"), Text("a"), Rows1>>},
     conns |-> BOOLEAN,
     results |-> {ErrRes, OkRes(<<>>, 0, 0)}]

\* The caller is one thread: it makes its calls one after the other, and
\* numbers them in that order.
InOrder(r) == \A q \in ReqIds : q < r => req[q].pc # "idle"

\* Any boundary call with request id r and arguments drawn from E.
Calls(r, E) ==
    /\ InOrder(r)
    /\ \/ mysql_pool_query_raw(r, E)
       \/ mysql_pool_query(r, E)
       \/ mysql_pool_prepare(r, E)
       \/ mysql_pool_begin_transaction(r, E)
       \/ mysql_conn_query_raw(r, E)
       \/ mysql_conn_query(r, E)
       \/ mysql_conn_commit(r, E)
       \/ mysql_conn_rollback(r, E)
       \/ mysql_conn_batch_insert(r, E)
       \/ mysql_conn_batch_upsert(r, E)
       \/ mysql_pool_batch_insert(r, E)
       \/ mysql_pool_batch_upsert(r, E)
       \/ mysql_stmt_execute(r, E)

\* Any step of the task of request r.
Steps(r, E) ==
    \/ pool_get_conn(r, E)
    \/ conn_lock(r)
    \/ conn_locked(r)
    \/ stmt_return(r, E)
    \/ task_end(r)

Destroys ==
    \E h \in HandleIds :
        \/ mysql_conn_destroy(h)
        \/ mysql_stmt_destroy(h)

Next ==
    \/ \E r \in 1 .. MaxCalls : Calls(r, Workload)
    \/ \E r \in 1 .. MaxCalls : Steps(r, Workload)
    \/ Destroys

Spec == Init /\ [][Next]_vars

TaskNext ==
    \/ \E r \in 1 .. MaxTasks : Calls(r, TaskWorkload)
    \/ \E r \in 1 .. MaxTasks : Steps(r, TaskWorkload)
    \/ Destroys

TaskSpec == Init /\ [][TaskNext]_vars

\* Batches of every shape, and a backend that reports every count and id.
BatchWorkload ==
    [pools |-> {PoolH},
     nulls |-> {},
     sqls |-> {},
     params |-> {},
     batches |-> {<<Text("t"), Cols1, ShortData>>,
                  <<Text("t"), Cols1, Rows0>>,
                  <<Text("t"), Cols0, Rows0>>,
                  <<Text("t"), Cols0, Rows1>>,
                  <<Text("t"), Cols1, Rows1>>,
                  <<Text("t"), Cols2, Rows2>>,
                  <<Text("t"), Cols1, Rows60001>>,
                  <<Text("t"), Cols2, Rows60001>>,
                  <<Text("t"), Cols30001, Rows3>>,
                  <<Text("t"), Cols60001, Rows2>>},
     conns |-> BOOLEAN,
     results |-> {ErrRes} \cup {OkRes(<<>>, a, i) : a \in 0 .. MaxAffected, i \in 0 .. MaxId}]

\* One batch call and its task.
BatchNext ==
    \/ mysql_conn_batch_insert(1, BatchWorkload)
    \/ mysql_conn_batch_upsert(1, BatchWorkload)
    \/ mysql_pool_batch_insert(1, BatchWorkload)
    \/ mysql_pool_batch_upsert(1, BatchWorkload)
    \/ pool_get_conn(1, BatchWorkload)
    \/ conn_lock(1)
    \/ stmt_return(1, BatchWorkload)
    \/ task_end(1)

BatchSpec == Init /\ [][BatchNext]_vars

\* Pieces of parameter buffers: the encodings of NULL, of the integers 1 and
\* -2^63, of a double, of the empty string, of "x" and of a two-byte blob; an
\* integer and a length field cut short, a blob longer than what follows,
\* and tags that no value has.
Items ==
    { <<0>>,
      <<1, 1, 0, 0, 0, 0, 0, 0, 0>>,
      <<1, 0, 0, 0, 0, 0, 0, 0, 128>>,
      <<2, 0, 0, 0, 0, 0, 0, 4, 64>>,
      <<3, 0, 0, 0, 0>>,
      <<3, 1, 0, 0, 0, 120>>,
      <<4, 2, 0, 0, 0, 1, 2>>,
      <<1, 7, 0, 0>>,
      <<3, 1, 0>>,
      <<4, 9, 0, 0, 0, 120>>,
      <<5>>,
      <<9>> }

RECURSIVE Flatten(_)
Flatten(seqs) == IF seqs = <<>> THEN <<>> ELSE Head(seqs) \o Flatten(Tail(seqs))

\* The parameter buffers of the caller: no buffer, an empty one, ones too
\* short for the count, a count with nothing behind it, and every count up
\* to MaxCount in front of up to MaxItems pieces.
ParamBuffers ==
    {NullBuf, Buf(<<>>), Buf(<<1>>), Buf(<<2, 0, 0>>), Buf(<<255, 255, 255, 127>>),
     Buf(<<255, 255, 255, 127, 3, 1, 0, 0, 0, 120>>)}
    \cup {Buf(<<c, 0, 0, 0>> \o Flatten(body)) :
            c \in 0 .. MaxCount,
            body \in UNION {[1 .. n -> Items] : n \in 0 .. MaxItems}}

CodecWorkload ==
    [pools |-> {PoolH},
     nulls |-> {},
     sqls |-> {Text("q")},
     params |-> ParamBuffers,
     batches |-> {},
     conns |-> BOOLEAN,
     results |-> {ErrRes, OkRes(<<>>, 0, 0)}]

\* One call that carries a parameter buffer, and its task.
CodecNext ==
    \/ mysql_pool_query(1, CodecWorkload)
    \/ mysql_conn_query(1, CodecWorkload)
    \/ mysql_stmt_execute(1, CodecWorkload)
    \/ pool_get_conn(1, CodecWorkload)
    \/ conn_lock(1)
    \/ stmt_return(1, CodecWorkload)
    \/ task_end(1)

CodecSpec == Init /\ [][CodecNext]_vars

\* Parameter buffers and batch buffers, among them ones that end before
\* their count field does.
TruncatedWorkload ==
    [pools |-> {PoolH},
     nulls |-> {},
     sqls |-> {Text("q")},
     params |-> ParamBuffers,
     batches |-> {<<Text("t"), Cols1, NullBuf>>,
                  <<Text("t"), Cols1, ShortData>>,
                  <<Text("t"), Cols2, Buf(<<1, 0, 0>>)>>,
                  <<Text("t"), Cols1, Rows1>>,
                  <<Text("t"), Cols2, Rows2>>},
     conns |-> BOOLEAN,
     results |-> {ErrRes, OkRes(<<>>, 0, 0)}]

\* One call that carries a parameter buffer or a batch buffer, and its task.
TruncatedNext ==
    \/ mysql_pool_query(1, TruncatedWorkload)
    \/ mysql_conn_query(1, TruncatedWorkload)
    \/ mysql_stmt_execute(1, TruncatedWorkload)
    \/ mysql_conn_batch_insert(1, TruncatedWorkload)
    \/ mysql_conn_batch_upsert(1, TruncatedWorkload)
    \/ mysql_pool_batch_insert(1, TruncatedWorkload)
    \/ mysql_pool_batch_upsert(1, TruncatedWorkload)
    \/ pool_get_conn(1, TruncatedWorkload)
    \/ conn_lock(1)
    \/ stmt_return(1, TruncatedWorkload)
    \/ task_end(1)

TruncatedSpec == Init /\ [][TruncatedNext]_vars

\* Results with no row, one row and two rows, and counts and ids of one
\* byte and of more.
ResultWorkload ==
    [pools |-> {PoolH},
     nulls |-> {},
     sqls |-> {Text("q")},
     params |-> {NullBuf},
     batches |-> {},
     conns |-> {TRUE},
     results |-> {OkRes(rows, a, i) :
                    rows \in {<<>>, <<[ncols |-> 1]>>, <<[ncols |-> 2], [ncols |-> 2]>>},
                    a \in (0 .. MaxAffected) \cup {70000},
                    i \in (0 .. MaxId) \cup {300}}]

\* One call that is answered with a result set, and its task.
ResultNext ==
    \/ mysql_pool_query_raw(1, ResultWorkload)
    \/ mysql_conn_query_raw(1, ResultWorkload)
    \/ mysql_pool_query(1, ResultWorkload)
    \/ mysql_conn_query(1, ResultWorkload)
    \/ mysql_stmt_execute(1, ResultWorkload)
    \/ pool_get_conn(1, ResultWorkload)
    \/ conn_lock(1)
    \/ stmt_return(1, ResultWorkload)
    \/ task_end(1)

ResultSpec == Init /\ [][ResultNext]_vars

\* What the backend answers to a statement whose result set has k columns
\* and n rows: conn.query / conn.exec hand back the rows, the statement's
\* column metadata (ncols) stays with the backend.
ColsRes(k, n, a, i) ==
    [ok |-> TRUE, rows |-> [j \in 1 .. n |-> [ncols |-> k]], affected |-> a, id |-> i,
     ncols |-> k]

\* Statements with one or two result columns that return no row, one row or
\* two rows.
MetadataWorkload ==
    [pools |-> {PoolH},
     nulls |-> {},
     sqls |-> {Text("q")},
     params |-> {NullBuf},
     batches |-> {},
     conns |-> {TRUE},
     results |-> {ColsRes(k, n, a, i) :
                    k \in 1 .. 2, n \in 0 .. 2, a \in 0 .. MaxAffected, i \in 0 .. MaxId}]

\* One query and its task.
MetadataNext ==
    \/ mysql_pool_query_raw(1, MetadataWorkload)
    \/ mysql_conn_query_raw(1, MetadataWorkload)
    \/ mysql_pool_query(1, MetadataWorkload)
    \/ mysql_conn_query(1, MetadataWorkload)
    \/ mysql_stmt_execute(1, MetadataWorkload)
    \/ pool_get_conn(1, MetadataWorkload)
    \/ conn_lock(1)
    \/ stmt_return(1, MetadataWorkload)
    \/ task_end(1)

MetadataSpec == Init /\ [][MetadataNext]_vars

\* The Values a caller encodes (n is an Integer's number, v the bytes of a
\* Float, a String or a Blob): Null, integers of both signs, a float, and
\* strings and blobs, empty and not, with the same bytes under both tags.
ParamValues ==
    { [tag |-> "Null", n |-> 0, v |-> <<>>],
      [tag |-> "Integer", n |-> 1, v |-> <<>>],
      [tag |-> "Integer", n |-> 0 - 1, v |-> <<>>],
      [tag |-> "Integer", n |-> 0 - 300, v |-> <<>>],
      [tag |-> "Float", n |-> 0, v |-> <<0, 0, 0, 0, 0, 0, 4, 64>>],
      [tag |-> "String", n |-> 0, v |-> <<>>],
      [tag |-> "String", n |-> 0, v |-> <<120>>],
      [tag |-> "Blob", n |-> 0, v |-> <<>>],
      [tag |-> "Blob", n |-> 0, v |-> <<120>>] }

\* The Parameter Lists of up to MaxItems Values, the empty list among them.
ParamLists == UNION {[1 .. n -> ParamValues] : n \in 0 .. MaxItems}

RoundTripWorkload ==
    [pools |-> {PoolH},
     nulls |-> {},
     sqls |-> {Text("q")},
     params |-> {Buf(encode_params(vs)) : vs \in ParamLists},
     batches |-> {},
     conns |-> {TRUE},
     results |-> {OkRes(<<>>, 0, 0)}]

\* One call whose parameter buffer the caller encoded, and its task.
RoundTripNext ==
    \/ mysql_pool_query(1, RoundTripWorkload)
    \/ mysql_conn_query(1, RoundTripWorkload)
    \/ mysql_stmt_execute(1, RoundTripWorkload)
    \/ pool_get_conn(1, RoundTripWorkload)
    \/ conn_lock(1)
    \/ stmt_return(1, RoundTripWorkload)
    \/ task_end(1)

RoundTripSpec == Init /\ [][RoundTripNext]_vars

\* Every task step is taken once it stays possible: the runtime polls a
\* ready task, and a round trip to the pool or the backend returns.
FairSpec ==
    /\ TaskSpec
    /\ \A r \in 1 .. MaxTasks : WF_vars(Steps(r, TaskWorkload))

\* The slot of a handle is an Option<Conn>: here the handles the caller
\* holds at the start have it populated or empty.
InitClosed ==
    /\ req = [r \in ReqIds |-> IdleReq]
    /\ callbacks = [r \in ReqIds |-> NoCallback]
    /\ \E c, s \in BOOLEAN :
        handles = [h \in HandleIds |->
                    IF h = ConnH0
                        THEN [NewHandle("conn", ConnH0) EXCEPT !.slot = IF c THEN 0 ELSE @]
                    ELSE IF h = StmtH0
                        THEN [NewHandle("stmt", StmtH0) EXCEPT !.slot = IF s THEN 0 ELSE @]
                    ELSE NoHandle]

\* Calls on the connection and statement handles, and their tasks.
ClosedNext ==
    \E r \in 1 .. MaxTasks :
        \/ InOrder(r) /\ mysql_conn_query_raw(r, TaskWorkload)
        \/ InOrder(r) /\ mysql_conn_query(r, TaskWorkload)
        \/ InOrder(r) /\ mysql_conn_commit(r, TaskWorkload)
        \/ InOrder(r) /\ mysql_conn_rollback(r, TaskWorkload)
        \/ InOrder(r) /\ mysql_conn_batch_insert(r, TaskWorkload)
        \/ InOrder(r) /\ mysql_conn_batch_upsert(r, TaskWorkload)
        \/ InOrder(r) /\ mysql_stmt_execute(r, TaskWorkload)
        \/ conn_lock(r)
        \/ conn_locked(r)
        \/ stmt_return(r, TaskWorkload)
        \/ task_end(r)

ClosedSpec == InitClosed /\ [][ClosedNext]_vars

\* ------------------------------------------------------------ the claims

Finished(r) == req[r].pc \in {"rejected", "done"}
Status(r) == callbacks[r].payload.status
IsError(r) == callbacks[r].count > 0 /\ Status(r) = STATUS_ERROR
IsOk(r) == callbacks[r].count > 0 /\ Status(r) = STATUS_OK

\* C1: the callback is never invoked more than once for a request id, no
\* request id is called back before its call was made, and every call that
\* has finished (rejected, or its task ended) was called back exactly once
\* under its own request id.
C1_ExactlyOnce ==
    \A r \in ReqIds :
        /\ callbacks[r].count <= 1
        /\ req[r].pc = "idle" => callbacks[r].count = 0
        /\ Finished(r) => callbacks[r].count = 1

\* A task ended after a failure, called back once with the error.
C1_Witness ==
    \E r \in ReqIds : req[r].pc = "done" /\ callbacks[r].count = 1 /\ IsError(r)

\* C2: a task that was spawned eventually invokes the callback, whatever
\* the other tasks do, on the pool and on shared handles.
C2_EventuallyCalled ==
    \A r \in 1 .. MaxTasks : (req[r].pc = "spawned") ~> (callbacks[r].count = 1)

\* A task that had to wait was handed the lock by a task that has called back.
C2_Witness ==
    \E r, q \in ReqIds : req[r].pc = "locked" /\ callbacks[q].count = 1

InvalidArgs(a) ==
    \/ a.h = NullPtr
    \/ \E i \in 1 .. Len(a.strs) : a.strs[i] \in {"null", "bad"}

\* The request has touched neither the pool, nor a lock, nor the backend.
NoBackend(r) ==
    /\ ~req[r].conn
    /\ req[r].h = NullPtr
    /\ req[r].cur = NoStmt
    /\ req[r].trace = <<>>
    /\ \A h \in HandleIds :
        \A i \in 1 .. Len(handles[h].waiters) : handles[h].waiters[i] # r

\* C3: a call with a null handle, or a null or non-UTF-8 string, has been
\* answered with an Error envelope when it returns, spawned no task and
\* reached neither the pool, a lock nor the backend.
C3_InvalidRejected ==
    \A r \in ReqIds :
        (req[r].op # None /\ InvalidArgs(req[r].args)) =>
            /\ req[r].pc = "rejected"
            /\ callbacks[r].count = 1
            /\ Status(r) = STATUS_ERROR
            /\ NoBackend(r)

\* A call with a valid handle and a string that is not UTF-8 was rejected.
C3_Witness ==
    \E r \in ReqIds :
        /\ req[r].pc = "rejected"
        /\ req[r].args.h # NullPtr
        /\ \E i \in 1 .. Len(req[r].args.strs) : req[r].args.strs[i] = "bad"
        /\ IsError(r)

\* C4 as claimed: every callback, also the one that reports an invalid
\* argument, runs on a runtime thread and never on the caller's.
C4_NeverOnCaller ==
    \A r \in ReqIds : callbacks[r].count > 0 => callbacks[r].thread = "runtime"

\* C4 as amended: the callback of a spawned task runs on a runtime thread;
\* the callback of a rejected call runs on the caller's thread, inside the call.
C4_ThreadOfCallback ==
    \A r \in ReqIds :
        callbacks[r].count > 0 =>
            /\ req[r].pc = "rejected" => callbacks[r].thread = "caller"
            /\ req[r].pc # "rejected" => callbacks[r].thread = "runtime"

\* A task reported a backend result from the runtime.
C4_Witness ==
    \E r \in ReqIds :
        /\ req[r].pc = "called"
        /\ req[r].trace # <<>>
        /\ callbacks[r].thread = "runtime"

\* Between acquiring the lock and releasing it.
InCritical(r) == req[r].op \in ConnOps /\ req[r].pc \in {"locked", "exec", "called"}

\* The connection a task's statement runs on: the slot of its handle, or the
\* connection it took from the pool (named by the request).
ConnOf(r) == IF req[r].op \in ConnOps THEN handles[req[r].h].slot ELSE r

\* C5: at most one task is inside the critical section of a handle, the
\* lock is held while it is, a statement of a handle's task is in flight
\* only inside it, and no connection has two statements in flight.
C5_MutualExclusion ==
    /\ \A r, q \in ReqIds :
        (r # q /\ InCritical(r) /\ InCritical(q)) => req[r].h # req[q].h
    /\ \A r \in ReqIds : InCritical(r) => handles[req[r].h].held
    /\ \A r \in ReqIds :
        (req[r].op \in ConnOps /\ (req[r].cur # NoStmt \/ req[r].trace # <<>>)) =>
            (InCritical(r) /\ handles[req[r].h].slot # 0)
    /\ \A r, q \in ReqIds :
        (r # q /\ req[r].pc = "exec" /\ req[q].pc = "exec") => ConnOf(r) # ConnOf(q)

\* One task runs a statement under the lock while another waits for it.
C5_Witness ==
    \E r, q \in ReqIds :
        /\ req[r].pc = "exec"
        /\ req[q].pc = "waiting"
        /\ req[r].h = req[q].h

IsBatch(r) == req[r].op \in BatchOps

\* The row count the caller's buffer declares, if it holds one.
Declared(r) == read_u32(req[r].b.data, 0)

\* The number of names in a comma-joined column list; the empty list has none.
ColumnCount(runs) == IF runs = <<>> THEN 0 ELSE CountChar(runs, ",") + 1

\* The statements the task of r has run are INSERTs sent with exec_drop.
OnlyInserts(r) ==
    \A k \in 1 .. Len(req[r].trace) :
        /\ req[r].trace[k].stmt.api = "exec_drop"
        /\ req[r].trace[k].stmt.sql = <<<<"INSERT INTO", 1>>>>

\* A batch of at least one row has reported success: no chunk failed.
BatchSucceeded(r) ==
    /\ IsBatch(r)
    /\ req[r].pc = "called"
    /\ IsOk(r)
    /\ Declared(r).some
    /\ Declared(r).val >= 1
    /\ \A k \in 1 .. Len(req[r].trace) : req[r].trace[k].res.ok

\* k = ceil(n / d), for d = 0 as well (then no k is).
IsCeilDiv(k, n, d) == (k - 1) * d < n /\ n <= k * d

\* C6 as claimed: a batch of N >= 1 rows and C >= 1 columns that succeeded
\* has run ceil(N / floor(60000 / C)) INSERT statements.
C6_ChunkCountFloor ==
    \A r \in ReqIds :
        (BatchSucceeded(r) /\ ColumnCount(req[r].b.columns) >= 1) =>
            /\ OnlyInserts(r)
            /\ IsCeilDiv(Len(req[r].trace), Declared(r).val,
                         ChunkParams \div ColumnCount(req[r].b.columns))

\* C6 as amended: a batch of N >= 1 rows and C >= 1 columns that succeeded
\* has run ceil(N / max(1, floor(60000 / C))) INSERT statements; with more
\* than 60000 columns that is one statement per row.
C6_ChunkCount ==
    \A r \in ReqIds :
        (BatchSucceeded(r) /\ ColumnCount(req[r].b.columns) >= 1) =>
            /\ OnlyInserts(r)
            /\ IsCeilDiv(Len(req[r].trace), Declared(r).val,
                         Max(1, ChunkParams \div ColumnCount(req[r].b.columns)))

\* A batch of two rows of 60001 columns succeeded with two statements.
C6_Witness ==
    \E r \in ReqIds :
        /\ BatchSucceeded(r)
        /\ ColumnCount(req[r].b.columns) > ChunkParams
        /\ Len(req[r].trace) = 2

RECURSIVE SumAffected(_)
SumAffected(trace) ==
    IF trace = <<>> THEN 0 ELSE trace[1].res.affected + SumAffected(Tail(trace))

RECURSIVE LastNonZeroId(_)
LastNonZeroId(trace) ==
    IF trace = <<>> THEN 0
    ELSE IF trace[Len(trace)].res.id # 0 THEN trace[Len(trace)].res.id
    ELSE LastNonZeroId(SubSeq(trace, 1, Len(trace) - 1))

\* C7: the success envelope of a batch carries the sum of the affected-row
\* counts the backend reported for the chunks, and the last non-zero id it
\* reported in execution order (0 when there was none).
C7_SumAndLastId ==
    \A r \in ReqIds :
        (IsBatch(r) /\ req[r].pc = "called" /\ IsOk(r)) =>
            /\ callbacks[r].payload.affected_rows = SumAffected(req[r].trace)
            /\ callbacks[r].payload.last_insert_id = LastNonZeroId(req[r].trace)

\* A batch succeeded whose chunk with a non-zero id was followed by a chunk
\* with id 0, and more than one chunk affected rows.
C7_Witness ==
    \E r \in ReqIds :
        /\ BatchSucceeded(r)
        /\ \E i, j \in 1 .. Len(req[r].trace) :
            /\ i < j
            /\ req[r].trace[i].res.id # 0
            /\ req[r].trace[j].res.id = 0
            /\ req[r].trace[i].res.affected > 0
            /\ req[r].trace[j].res.affected > 0

\* The buffer of the batch call r declares zero rows.
ZeroRows(r) == IsBatch(r) /\ Declared(r).some /\ Declared(r).val = 0

C9_AbortOnFailure ==
    \A r \in ReqIds :
        IsBatch(r) =>
            \A k \in 1 .. Len(req[r].trace) :
                ~req[r].trace[k].res.ok =>
                    /\ k = Len(req[r].trace)
                    /\ req[r].pc = "called"
                    /\ req[r].cur = NoStmt
                    /\ \A j \in 1 .. (k - 1) : req[r].trace[j].res.ok
                    /\ OnlyInserts(r)
                    /\ callbacks[r].count = 1
                    /\ IsError(r)

\* The second of three chunks failed: values were left that were never sent.
C9_Witness ==
    \E r \in ReqIds :
        /\ IsBatch(r)
        /\ req[r].pc = "called"
        /\ Len(req[r].trace) = 2
        /\ req[r].trace[1].res.ok
        /\ ~req[r].trace[2].res.ok
        /\ req[r].b.off + ChunkLen(req[r].b) < ValuesLen(req[r].b.all_values)

\* C10 as claimed: a batch call of at least one row whose column list holds
\* no column builds and runs no statement, ends in an Error callback, and is
\* turned down inside the call, before a task is spawned.
C10_ZeroColumnsRejected ==
    \A r \in ReqIds :
        (/\ IsBatch(r)
         /\ Declared(r).some
         /\ Declared(r).val >= 1
         /\ ColumnCount(req[r].b.columns) = 0) =>
            /\ req[r].cur = NoStmt /\ req[r].trace = <<>>
            /\ callbacks[r].count > 0 => (IsError(r) /\ callbacks[r].thread = "caller")

\* The task of r is past lock().await on a handle whose slot is empty.
FoundClosed(r) ==
    /\ req[r].op \in ConnOps
    /\ req[r].pc \in {"exec", "called"}
    /\ handles[req[r].h].slot = 0

\* C11: a connection or statement operation that holds the lock of a handle
\* whose slot is empty has reported the Error "Connection is closed", has
\* run no statement and runs none; and a lock is held only while a task is
\* between acquiring and releasing it, so the task that ended released it.
C11_ClosedReported ==
    /\ \A r \in ReqIds :
        FoundClosed(r) =>
            /\ req[r].pc = "called"
            /\ req[r].cur = NoStmt /\ req[r].trace = <<>>
            /\ callbacks[r].count = 1
            /\ IsError(r)
            /\ callbacks[r].payload.msg = "Connection is closed"
    /\ \A h \in HandleIds :
        handles[h].held => \E r \in ReqIds : InCritical(r) /\ req[r].h = h

\* A task that found the slot empty has ended, and the task that waited
\* behind it on the same handle has the lock.
C11_Witness ==
    \E r, q \in ReqIds :
        /\ req[r].pc = "done"
        /\ callbacks[r].payload.msg = "Connection is closed"
        /\ req[q].pc = "locked"
        /\ handles[req[q].h].slot = 0

\* C12: a connection handle that has not been destroyed has its slot
\* populated, whatever operations ran or run on it; a task that holds a
\* handle's lock finds the slot populated; and no request is answered with
\* "Connection is closed".
C12_SlotStaysPopulated ==
    /\ \A h \in HandleIds : handles[h].boxed => handles[h].slot # 0
    /\ \A r \in ReqIds :
        /\ (req[r].op \in ConnOps /\ req[r].pc # "rejected") => handles[req[r].h].slot # 0
        /\ callbacks[r].payload.msg # "Connection is closed"

\* A commit on the handle that an earlier pool_begin_transaction of this
\* run delivered has succeeded, and the handle is still not destroyed.
C12_Witness ==
    \E r, q \in ReqIds :
        /\ handles[r].kind = "conn"
        /\ handles[r].boxed
        /\ req[q].op = "conn_commit"
        /\ req[q].h = r
        /\ req[q].pc = "called"
        /\ IsOk(q)

\* The statements the task of r has sent so far, the one in flight last.
Statements(r) ==
    [k \in 1 .. Len(req[r].trace) |-> req[r].trace[k].stmt]
    \o (IF req[r].cur = NoStmt THEN <<>> ELSE <<req[r].cur>>)

\* Text with adjacent runs of the same character merged.
RECURSIVE Norm(_)
Norm(runs) ==
    IF Len(runs) <= 1 THEN runs
    ELSE IF runs[1][1] = runs[2][1]
    THEN Norm(<< <<runs[1][1], runs[1][2] + runs[2][2]>> >> \o SubSeq(runs, 3, Len(runs)))
    ELSE <<runs[1]>> \o Norm(Tail(runs))

\* The left-hand sides of a clause's updates, joined with commas.
RECURSIVE JoinUpdated(_)
JoinUpdated(updates) ==
    IF updates = <<>> THEN <<>>
    ELSE Head(updates).col
         \o (IF Head(updates).times > 1 THEN << <<",", Head(updates).times - 1>> >> ELSE <<>>)
         \o (IF Tail(updates) = <<>> THEN <<>> ELSE << <<",", 1>> >> \o JoinUpdated(Tail(updates)))

IsUpsert(r) == req[r].op \in {"conn_batch_upsert", "pool_batch_upsert"}

\* C13: every statement of an upsert call carries one ON DUPLICATE KEY UPDATE
\* clause whose updates, each of the form c = VALUES(c), name the columns of
\* the column list once each and in order (joined with commas they give the
\* column list back); no statement of an insert call carries the clause.
C13_UpsertClause ==
    \A r \in ReqIds :
        IsBatch(r) =>
            \A k \in 1 .. Len(Statements(r)) :
                LET clause == Statements(r)[k].chunk.update IN
                IF IsUpsert(r)
                THEN /\ clause.keyword
                     /\ \A i \in 1 .. Len(clause.updates) :
                            /\ clause.updates[i].col = clause.updates[i].values_of
                            /\ clause.updates[i].times > 1 => clause.updates[i].col = <<>>
                     /\ Norm(JoinUpdated(clause.updates)) = req[r].b.columns
                ELSE clause = NoUpdate

\* An upsert of the columns "a,b" has sent three statements.
C13_Witness ==
    \E r \in ReqIds :
        /\ IsUpsert(r)
        /\ req[r].b.columns = Cols2.text
        /\ Len(req[r].trace) = 3
        /\ req[r].trace[3].stmt.chunk.update.keyword

HasParams(r) == req[r].op \in {"pool_query", "conn_query", "stmt_execute"}

\* The count a parameter buffer declares; a buffer too short for it
\* declares no value.
DeclaredCount(bytes) == IF Len(bytes) >= 4 THEN read_u32(bytes, 0).val ELSE 0

\* What the bytes at pos stand for: the value that its tag byte and its
\* whole payload encode, and NULL when the tag is none of 1, 2, 3, 4 or the
\* payload runs past the end of the buffer.
ClaimedValue(data, pos) ==
    LET tag == data[pos + 1]
        len == data[pos + 2] + 256 * data[pos + 3]
               + 65536 * data[pos + 4] + 16777216 * data[pos + 5]
    IN  IF tag \in {1, 2}
        THEN IF pos + 9 > Len(data) THEN NULL
             ELSE [tag |-> IF tag = 1 THEN "Int" ELSE "Double",
                   v |-> SubSeq(data, pos + 2, pos + 9)]
        ELSE IF tag \in {3, 4}
        THEN IF pos + 5 > Len(data) THEN NULL
             ELSE IF pos + 5 + len > Len(data) THEN NULL
             ELSE [tag |-> "Bytes", v |-> SubSeq(data, pos + 6, pos + 5 + len)]
        ELSE NULL

\* Where the i-th value of a list that starts at pos begins.
RECURSIVE StartOf(_, _, _)
StartOf(data, pos, i) ==
    IF i = 1 THEN pos ELSE StartOf(data, parse_value(data, pos).pos, i - 1)

\* C14: the parameters bound to a statement are as many as the buffer
\* declares, whatever its length; each is the value its bytes encode, or
\* NULL when its tag is unknown or its payload (or the tag itself) lies past
\* the end of the buffer; and no call fails for its parameter buffer: an
\* Error comes from the pool or from the backend only.
C14_DecodeNeverFails ==
    \A r \in ReqIds :
        HasParams(r) =>
            /\ req[r].cur # NoStmt =>
                LET bytes == req[r].params
                    vs == req[r].cur.params.values
                IN  /\ ValuesLen(vs) = DeclaredCount(bytes)
                    /\ \A i \in 1 .. Len(vs.head) :
                        /\ StartOf(bytes, 4, i) < Len(bytes)
                        /\ vs.head[i] = ClaimedValue(bytes, StartOf(bytes, 4, i))
                    /\ vs.nulls > 0 => StartOf(bytes, 4, Len(vs.head) + 1) >= Len(bytes)
            /\ (req[r].pc = "called" /\ IsError(r)) =>
                callbacks[r].payload.msg \in {"pool error", "backend"}

\* A statement is in flight with two parameters of which the first, a blob
\* longer than the rest of the buffer, was read as NULL.
C14_Witness ==
    \E r \in ReqIds :
        /\ HasParams(r)
        /\ req[r].pc = "exec"
        /\ Len(req[r].params) >= 5
        /\ req[r].params[5] = 4
        /\ ValuesLen(req[r].cur.params.values) = 2
        /\ Len(req[r].cur.params.values.head) >= 1
        /\ req[r].cur.params.values.head[1] = NULL

\* The integer that eight little-endian two's complement bytes stand for.
RECURSIVE from_le_bytes(_)
from_le_bytes(bytes) ==
    IF Len(bytes) = 1
    THEN (IF bytes[1] >= 128 THEN bytes[1] - 256 ELSE bytes[1])
    ELSE bytes[1] + 256 * from_le_bytes(Tail(bytes))

\* The decoded value is the Value that was encoded; a String and a Blob
\* both come back as Bytes.
SameValue(value, decoded) ==
    IF value.tag = "Null" THEN decoded = NULL
    ELSE IF value.tag = "Integer"
    THEN decoded.tag = "Int" /\ Len(decoded.v) = 8 /\ from_le_bytes(decoded.v) = value.n
    ELSE IF value.tag = "Float" THEN decoded = [tag |-> "Double", v |-> value.v]
    ELSE decoded = [tag |-> "Bytes", v |-> value.v]

\* C15: the parameters bound to a statement whose buffer is the encoding of
\* a Parameter List are the Values of that list, as many and in the same
\* order; the empty list gives no parameters.
C15_RoundTrip ==
    \A r \in ReqIds :
        (HasParams(r) /\ req[r].cur # NoStmt) =>
            \A vs \in ParamLists :
                req[r].params = encode_params(vs) =>
                    LET got == req[r].cur.params IN
                    /\ got.values.nulls = 0
                    /\ Len(got.values.head) = Len(vs)
                    /\ \A i \in 1 .. Len(vs) : SameValue(vs[i], got.values.head[i])
                    /\ got.kind = IF vs = <<>> THEN "Empty" ELSE "Positional"

\* A statement is in flight whose buffer encodes -300 and an empty blob.
C15_Witness ==
    \E r \in ReqIds :
        /\ HasParams(r)
        /\ req[r].pc = "exec"
        /\ req[r].params = encode_params(<<[tag |-> "Integer", n |-> 0 - 300, v |-> <<>>],
                                            [tag |-> "Blob", n |-> 0, v |-> <<>>]>>)
        /\ req[r].cur.params.values.head[2] = [tag |-> "Bytes", v |-> <<>>]

\* The buffer of the call ends before its u32 count field does.
ShortParams(r) == HasParams(r) /\ req[r].pc # "rejected" /\ Len(req[r].params) < 4
ShortBatch(r) == IsBatch(r) /\ req[r].pc # "rejected" /\ Len(req[r].b.data) < 4

\* The task of r has a connection to run statements on.
HasConn(r) == req[r].op \in ConnOps \/ req[r].conn

\* C16 as stated: a call whose parameter buffer or batch buffer is too short
\* for its count field runs no statement and is answered with an Error.
C16_ShortCountAborts ==
    \A r \in ReqIds :
        (ShortParams(r) \/ ShortBatch(r)) =>
            /\ Statements(r) = <<>>
            /\ callbacks[r].count > 0 => IsError(r)

\* C16, amended: a batch buffer too short for its row count runs no
\* statement and is answered with the Error "Failed to read row count" once
\* the task has its connection; a parameter buffer too short for its count
\* is the empty list: the statement is executed with no parameters and the
\* callback carries what the backend answered.
C16_ShortCount ==
    \A r \in ReqIds :
        /\ ShortBatch(r) =>
            /\ Statements(r) = <<>>
            /\ callbacks[r].count > 0 =>
                /\ IsError(r)
                /\ HasConn(r) => callbacks[r].payload.msg = "Failed to read row count"
        /\ ShortParams(r) =>
            /\ \A k \in 1 .. Len(Statements(r)) :
                    /\ Statements(r)[k].api = "exec"
                    /\ Statements(r)[k].params = [kind |-> "Empty",
                                                  values |-> [head |-> <<>>, nulls |-> 0]]
            /\ (req[r].pc = "called" /\ HasConn(r)) =>
                /\ Len(req[r].trace) = 1
                /\ IsOk(r) <=> req[r].trace[1].res.ok

\* A statement was executed for a call whose parameter buffer holds one byte,
\* and the call was answered with Ok.
C16_Witness ==
    \E r \in ReqIds :
        /\ ShortParams(r)
        /\ Len(req[r].params) = 1
        /\ req[r].pc = "called"
        /\ Len(req[r].trace) = 1
        /\ IsOk(r)

\* The position behind n column descriptors (blob, u16, u16) that start at
\* pos, or -1 when the buffer ends before they do.
RECURSIVE SkipColumns(_, _, _)
SkipColumns(buf, pos, n) ==
    IF n = 0 THEN pos
    ELSE LET name == read_blob(buf, pos) IN
         IF ~name.some \/ name.pos + 4 > Len(buf) THEN 0 - 1
         ELSE SkipColumns(buf, name.pos + 4, n - 1)

\* The position behind n cells (u8 present, then a blob when present = 1).
RECURSIVE SkipCells(_, _, _)
SkipCells(buf, pos, n) ==
    IF n = 0 THEN pos
    ELSE LET present == read_u8(buf, pos) IN
         IF ~present.some THEN 0 - 1
         ELSE IF present.val = 0 THEN SkipCells(buf, present.pos, n - 1)
         ELSE LET cell == read_blob(buf, present.pos) IN
              IF present.val # 1 \/ ~cell.some THEN 0 - 1
              ELSE SkipCells(buf, cell.pos, n - 1)

\* A buffer read as the result-set layout: status, u64 affected_rows, u64
\* last_insert_id, u32 column_count, the descriptors, u32 row_count, the
\* rows. ok says that the buffer is one such envelope, whole and no longer.
ReadEnvelope(buf) ==
    IF Len(buf) < 25 THEN [ok |-> FALSE, status |-> 0 - 1, affected_rows |-> 0,
                           last_insert_id |-> 0, column_count |-> 0, row_count |-> 0]
    ELSE LET a == read_8(buf, 1)
             i == read_8(buf, a.pos)
             cc == read_u32(buf, i.pos)
             rows_at == SkipColumns(buf, cc.pos, cc.val)
             rc == IF rows_at < 0 THEN [some |-> FALSE, val |-> 0, pos |-> 0]
                   ELSE read_u32(buf, rows_at)
             end == IF rc.some THEN SkipCells(buf, rc.pos, rc.val * cc.val) ELSE 0 - 1
         IN  [ok |-> end = Len(buf), status |-> buf[1],
              affected_rows |-> from_le_bytes(a.val),
              last_insert_id |-> from_le_bytes(i.val),
              column_count |-> cc.val, row_count |-> IF rc.some THEN rc.val ELSE 0 - 1]

\* The call was answered from the result set of its statement.
ResultDelivered(r) ==
    /\ req[r].op \in {"pool_query_raw", "conn_query_raw", "pool_query", "conn_query",
                      "stmt_execute"}
    /\ req[r].pc = "called"
    /\ Len(req[r].trace) = 1
    /\ req[r].trace[1].res.ok

\* C17: a result is delivered as one buffer of the result-set layout,
\* whether it has rows or not; when it has no rows the buffer is the 25-byte
\* header with status Ok, the affected_rows and last_insert_id of the
\* result, column_count 0 and row_count 0.
C17_EmptyResultHeader ==
    \A r \in ReqIds :
        ResultDelivered(r) =>
            LET res == req[r].trace[1].res
                e == ReadEnvelope(callbacks[r].payload.buf)
            IN  /\ callbacks[r].count = 1
                /\ e.ok
                /\ e.row_count = Len(res.rows)
                /\ res.rows = <<>> =>
                    /\ Len(callbacks[r].payload.buf) = 25
                    /\ e.status = STATUS_OK
                    /\ e.affected_rows = res.affected
                    /\ e.last_insert_id = res.id
                    /\ e.column_count = 0
                    /\ e.row_count = 0

\* A result without rows, with 70000 affected rows and id 300, was delivered.
C17_Witness ==
    \E r \in ReqIds :
        /\ ResultDelivered(r)
        /\ req[r].trace[1].res = OkRes(<<>>, 70000, 300)
        /\ callbacks[r].payload.buf =
               <<1, 112, 17, 1, 0, 0, 0, 0, 0, 44, 1, 0, 0, 0, 0, 0, 0, 0, 0, 0, 0, 0, 0, 0, 0>>

IsBegin(r) == req[r].op = "pool_begin_transaction"

\* C18: a connection handle comes into being for a begin-transaction call
\* only in the step in which START TRANSACTION returns Ok on the acquired
\* connection, together with the callback that delivers it; a call that is
\* answered with an Error (no connection acquired, or START TRANSACTION
\* failed) has no handle, and no handle holds its connection.
C18_HandleAfterStart ==
    [][\A r \in ReqIds :
        /\ (IsBegin(r) /\ handles[r] = NoHandle /\ handles'[r] # NoHandle) =>
            /\ req[r].pc = "exec"
            /\ req[r].conn
            /\ req[r].cur.sql = <<<<"START TRANSACTION", 1>>>>
            /\ req'[r].trace = <<[stmt |-> req[r].cur, res |-> req'[r].trace[1].res]>>
            /\ req'[r].trace[1].res.ok
            /\ handles'[r] = NewHandle("conn", r)
            /\ callbacks[r].count = 0
            /\ callbacks'[r].count = 1
            /\ callbacks'[r].payload = handle_response(r)
        /\ (IsBegin(r) /\ callbacks[r].count = 0 /\ callbacks'[r].count > 0) =>
            IF callbacks'[r].payload.status = STATUS_ERROR
            THEN /\ handles'[r] = NoHandle
                 /\ \A h \in HandleIds : handles'[h].slot # r
                 /\ req[r].pc = "exec" => ~req'[r].trace[1].res.ok
            ELSE /\ handles'[r] = NewHandle("conn", r)
                 /\ callbacks'[r].payload = handle_response(r)
    ]_vars

\* A begin-transaction call was answered with the handle of its connection.
C18_Witness ==
    \E r \in ReqIds :
        /\ IsBegin(r)
        /\ req[r].pc = "called"
        /\ Len(req[r].trace) = 1
        /\ req[r].trace[1].res.ok
        /\ IsOk(r)
        /\ callbacks[r].payload = handle_response(r)
        /\ handles[r] = NewHandle("conn", r)

\* The number of parameters bound to a statement.
Bound(stmt) == ValuesLen(stmt.params.values)

\* C19 as stated: no statement of a batch binds more than 60000 parameters.
C19_AtMostChunkParams ==
    \A r \in ReqIds :
        IsBatch(r) =>
            \A k \in 1 .. Len(Statements(r)) :
                Bound(Statements(r)[k]) <= ChunkParams

\* C19, amended: a statement of a batch with at most 60000 columns binds at
\* most 60000 parameters; with more than 60000 columns every statement
\* carries one row, and binds as many parameters as there are columns.
C19_ParamsPerStatement ==
    \A r \in ReqIds :
        IsBatch(r) =>
            \A k \in 1 .. Len(Statements(r)) :
                LET C == SplitLen(req[r].b.columns) IN
                /\ Bound(Statements(r)[k]) >= 1
                /\ IF C <= ChunkParams
                   THEN Bound(Statements(r)[k]) <= ChunkParams
                   ELSE Bound(Statements(r)[k]) = C

\* The second statement of a batch of two rows of 60001 columns is in
\* flight, with 60001 parameters.
C19_Witness ==
    \E r \in ReqIds :
        /\ IsBatch(r)
        /\ SplitLen(req[r].b.columns) = ChunkParams + 1
        /\ req[r].pc = "exec"
        /\ Len(req[r].trace) = 1
        /\ Bound(req[r].cur) = ChunkParams + 1

\* The `?` of a chunk's statement: groups of width placeholders.
Placeholders(stmt) == stmt.chunk.groups * stmt.chunk.width

\* The parameter lists of statements one after the other, as a value list of
\* head and nulls (a NULL count in the middle is written out).
RECURSIVE ConcatParams(_)
ConcatParams(stmts) ==
    IF stmts = <<>> THEN [head |-> <<>>, nulls |-> 0]
    ELSE LET a == Head(stmts).params.values
             b == ConcatParams(Tail(stmts))
         IN  IF b.head = <<>> THEN [head |-> a.head, nulls |-> a.nulls + b.nulls]
             ELSE [head |-> a.head \o [j \in 1 .. a.nulls |-> NULL] \o b.head,
                   nulls |-> b.nulls]

\* The first n values of a value list.
Prefix(vs, n) ==
    [head |-> SubSeq(vs.head, 1, Min(n, Len(vs.head))),
     nulls |-> n - Min(n, Len(vs.head))]

\* C20: in a batch of N rows and C columns (C as the chunker counts the
\* names of the column string), every statement has as many `?` as it
\* binds parameters, a whole multiple of C and at least one row; the
\* parameter lists of the statements so far, one after the other, are the
\* first values decoded from the buffer, with NULL for those it does not
\* hold; and a batch that reports success has bound N * C values.
C20_ChunksPartition ==
    \A r \in ReqIds :
        (IsBatch(r) /\ Statements(r) # <<>>) =>
            LET N == Declared(r).val
                C == SplitLen(req[r].b.columns)
                all == ConcatParams(Statements(r))
                decoded == parse_values(req[r].b.data, 4, N * C)
            IN  /\ \A k \in 1 .. Len(Statements(r)) :
                    /\ Placeholders(Statements(r)[k]) = Bound(Statements(r)[k])
                    /\ Statements(r)[k].chunk.width = C
                    /\ Bound(Statements(r)[k]) % C = 0
                    /\ Bound(Statements(r)[k]) >= C
                /\ ValuesLen(all) <= N * C
                /\ all = Prefix(decoded, ValuesLen(all))
                /\ BatchSucceeded(r) => ValuesLen(all) = N * C /\ all = decoded

\* A batch of two rows of 60001 columns succeeded: its first statement bound
\* the values of the buffer and NULLs, its second statement NULLs only.
C20_Witness ==
    \E r \in ReqIds :
        /\ BatchSucceeded(r)
        /\ SplitLen(req[r].b.columns) = ChunkParams + 1
        /\ Len(req[r].trace) = 2
        /\ req[r].trace[1].stmt.params.values.head # <<>>
        /\ req[r].trace[1].stmt.params.values.nulls > 0
        /\ req[r].trace[2].stmt.params.values.head = <<>>

\* The tasks that hold a reference to the connection of handle h: spawned
\* on it and not yet ended.
InFlight(h) ==
    {r \in ReqIds : /\ req[r].op \in ConnOps
                     /\ req[r].h = h
                     /\ req[r].pc \in {"spawned", "waiting", "locked", "exec", "called"}}

\* The task of r was scheduled on a handle that has been destroyed since.
Orphan(r) == \E h \in HandleIds : r \in InFlight(h) /\ ~handles[h].boxed

\* The references to the connection of a handle are the handle's own, as
\* long as it is not destroyed, and one per task in flight on it; the
\* connection is open as long as there is one, and released when there is
\* none; no task in flight finds it closed.
RefsKeepOpen ==
    \A h \in HandleIds :
        handles[h].kind # None =>
            /\ handles[h].strong =
                  (IF handles[h].boxed THEN 1 ELSE 0) + Cardinality(InFlight(h))
            /\ handles[h].slot = 0 <=> handles[h].strong = 0
            /\ \A r \in InFlight(h) :
                  /\ handles[h].slot # 0
                  /\ callbacks[r].payload.msg # "Connection is closed"

\* C21: a destroy takes away the handle's own reference only, the
\* connection stays open until the last task in flight on the handle has
\* ended, and a task that was scheduled before the destroy and has not
\* called back yet delivers its callback after it, not as "Connection is
\* closed".
C21_RunsAfterDestroy ==
    /\ []RefsKeepOpen
    /\ \A r \in 1 .. MaxTasks :
          (Orphan(r) /\ callbacks[r].count = 0)
              ~> (callbacks[r].count = 1
                  /\ callbacks[r].payload.msg # "Connection is closed")

\* A statement is in flight on the connection of a handle that was
\* destroyed after the statement's task was spawned; nothing was called
\* back yet.
C21_Witness ==
    \E r \in ReqIds :
        /\ Orphan(r)
        /\ req[r].pc = "exec"
        /\ callbacks[r].count = 0
        /\ handles[req[r].h].strong = 1
        /\ handles[req[r].h].slot # 0

\* The statement handle whose statement a stmt_execute statement runs.
StmtOf(stmt) == stmt.sql[1][2]

\* The connection a statement handle was prepared on: that of the request
\* whose pool_prepare made the handle (a handle is named by that request),
\* or its own for the handle that exists from the start.
PreparedOn(s) == s

\* Every execution of a prepared statement is on the connection it was
\* prepared on, which is in the slot of its handle and nowhere else; an
\* undestroyed statement handle holds that connection.
OnPreparedConn ==
    /\ \A h \in HandleIds :
          (handles[h].kind = "stmt" /\ handles[h].boxed) => handles[h].slot = PreparedOn(h)
    /\ \A q \in ReqIds :
          (req[q].op = "stmt_execute" /\ req[q].pc = "exec") =>
              LET s == StmtOf(req[q].cur) IN
              /\ handles[s].kind = "stmt"
              /\ req[q].h = s
              /\ ConnOf(q) = PreparedOn(s)
              /\ \A h \in HandleIds \ {s} : handles[h].slot # ConnOf(q)
              /\ \A p \in ReqIds :
                    (req[p].op \in PoolOps /\ req[p].conn) => ConnOf(p) # ConnOf(q)

\* C22: a statement handle comes into being in the step in which the prep
\* of a pool_prepare returns Ok on the connection that call acquired from
\* the pool, and that connection moves into the handle's slot; it stays
\* there while the handle is not destroyed, and every stmt_execute runs on
\* it, never on another pooled connection or that of another handle.
C22_OneConnection ==
    /\ []OnPreparedConn
    /\ [][\A h \in ReqIds :
            (handles[h].kind = None /\ handles'[h].kind = "stmt") =>
                /\ req[h].op = "pool_prepare"
                /\ req[h].pc = "exec"
                /\ req[h].conn
                /\ ~req'[h].conn
                /\ req'[h].trace[1].res.ok
                /\ handles'[h] = NewHandle("stmt", ConnOf(h))
       ]_vars

\* A statement prepared by an earlier call of the run is executing on the
\* connection of its handle.
C22_Witness ==
    \E q \in ReqIds, h \in ReqIds :
        /\ req[q].op = "stmt_execute"
        /\ req[q].pc = "exec"
        /\ req[q].h = h
        /\ handles[h].kind = "stmt"
        /\ ConnOf(q) = h

\* C23: a result without rows of a statement with k > 0 result columns is
\* delivered with column_count = k, the k column descriptors and
\* row_count = 0.
C23_EmptyKeepsColumns ==
    \A r \in ReqIds :
        (ResultDelivered(r) /\ req[r].trace[1].res.rows = <<>>
                            /\ req[r].trace[1].res.ncols > 0) =>
            LET e == ReadEnvelope(callbacks[r].payload.buf) IN
            /\ e.ok
            /\ e.column_count = req[r].trace[1].res.ncols
            /\ e.row_count = 0

\* The callback of r is delivered in this step.
Delivered(r) == callbacks[r].count = 0 /\ callbacks'[r].count = 1

\* C24 as stated: the callback of every operation on a handle, whatever
\* it reports, is delivered while the operation holds the handle's lock.
C24_CallbackUnderLock ==
    [][\A r \in ReqIds :
        (Delivered(r) /\ req'[r].op \in ConnOps /\ req'[r].args.h # NullPtr) =>
            /\ req'[r].pc = "called"
            /\ handles'[req'[r].h].held
      ]_vars

\* While a task is between acquiring and releasing the lock of a handle, no
\* other task on the handle has called back or has or had a statement
\* in flight: the tasks before it have ended, those after it wait.
OneAtATime ==
    \A r, q \in ReqIds :
        (r # q /\ InCritical(r) /\ req[q].op \in ConnOps /\ req[q].pc # "rejected"
               /\ req[q].h = req[r].h) =>
            /\ req[q].pc \in {"spawned", "waiting"}
            /\ callbacks[q].count = 0
            /\ Statements(q) = <<>>

\* C24, amended: the callback of an operation whose task was scheduled on
\* a handle is delivered by the task while it holds the handle's lock, and
\* the task gives the lock up only after it; so on one handle callbacks
\* come in the order of lock acquisition, each before the next operation
\* runs a statement. The Error callback of a call rejected at validation is
\* delivered inside the call, without the lock and without touching it.
C24_CallbackOrder ==
    /\ []OneAtATime
    /\ [][\A r \in ReqIds :
            /\ (Delivered(r) /\ req'[r].op \in ConnOps /\ req'[r].pc # "rejected") =>
                /\ req'[r].pc = "called"
                /\ handles'[req'[r].h].held
                /\ callbacks'[r].thread = "runtime"
            /\ (Delivered(r) /\ req'[r].pc = "rejected") =>
                /\ callbacks'[r].thread = "caller"
                /\ handles' = handles
            /\ (InCritical(r) /\ req'[r].pc = "done") => callbacks[r].count = 1
       ]_vars

\* The second call on a handle has called back under the lock while the
\* first call on the same handle still waits for it.
C24_Witness ==
    \E r, q \in ReqIds :
        /\ r < q
        /\ req[r].op \in ConnOps
        /\ req[r].h = req[q].h
        /\ req[r].pc = "waiting"
        /\ req[q].pc = "called"
        /\ req[q].op \in ConnOps
        /\ callbacks[q].count = 1
        /\ callbacks[r].count = 0
        /\ handles[req[q].h].held

\* A handle that is not destroyed has its connection; a lock is held
\* exactly while a task is between acquiring and releasing it, and tasks
\* wait only for a lock that is held.
ErrorLeavesUsable ==
    \A h \in HandleIds :
        handles[h].kind # None =>
            /\ handles[h].boxed => handles[h].slot # 0
            /\ handles[h].held <=> \E r \in ReqIds : InCritical(r) /\ req[r].h = h
            /\ handles[h].waiters # <<>> => handles[h].held
            /\ \A k \in 1 .. Len(handles[h].waiters) :
                  LET w == handles[h].waiters[k] IN
                  req[w].pc = "waiting" /\ req[w].h = h

\* What a step leaves alone: an error report and the end of the task that
\* made it leave the connection in the slot and give the lock up or on to
\* the first waiter; a destroy changes the destroyed handle only.
HandleFrame ==
    /\ \A r \in ReqIds :
          (Delivered(r) /\ callbacks'[r].payload.status = STATUS_ERROR
                        /\ req'[r].op \in ConnOps /\ req'[r].pc = "called") =>
              LET h == req'[r].h IN
              /\ handles[h].slot # 0
              /\ handles'[h].slot = handles[h].slot
              /\ handles'[h].held
              /\ \A g \in HandleIds \ {h} : handles'[g] = handles[g]
    /\ \A r \in ReqIds :
          (req[r].op \in ConnOps /\ req[r].pc = "called" /\ IsError(r)
                                 /\ req'[r].pc = "done") =>
              LET h == req[r].h IN
              /\ handles[h].waiters = <<>> => ~handles'[h].held
              /\ handles[h].waiters # <<>> =>
                    /\ handles'[h].held
                    /\ req'[Head(handles[h].waiters)].pc = "locked"
                    /\ handles'[h].slot # 0
              /\ handles'[h].boxed => handles'[h].slot = handles[h].slot
              /\ \A g \in HandleIds \ {h} : handles'[g] = handles[g]
    /\ \A h \in HandleIds :
          (handles[h].boxed /\ ~handles'[h].boxed) =>
              /\ \A g \in HandleIds \ {h} : handles'[g] = handles[g]
              /\ req' = req
              /\ callbacks' = callbacks

\* C25: an operation on a handle that reports an error leaves the
\* connection in the slot and releases the lock when its task ends, so that
\* the lock goes to the next operation on the handle, which finds the
\* connection; and a destroy leaves every other handle as it was.
C25_ErrorsAndDestroysLocal ==
    /\ []ErrorLeavesUsable
    /\ [][HandleFrame]_vars

\* The first call on a handle ended with an error, and the second call, which
\* waited for it, has the lock and finds the connection.
C25_Witness ==
    \E r, q \in ReqIds :
        /\ req[r].pc = "done"
        /\ IsError(r)
        /\ req[q].pc = "locked"
        /\ handles[req[q].h].held
        /\ handles[req[q].h].slot # 0
        /\ handles[req[q].h].waiters = <<>>

====
